---- MODULE Spec2Model ----
(***************************************************************************)
(* Flashblocks sidecar: the reconstruction actor (process_payload and its  *)
(* helpers, crates/flashblocks-rpc/src/flashblocks.rs), the TTL cache it   *)
(* writes, and the RPC override layer (src/rpc.rs) that reads the cache.   *)
(*                                                                         *)
(* One fold of an update is one atomic step: the actor is the only writer  *)
(* and a fold takes microseconds against a TTL of 10 seconds.  Every write *)
(* of a fold carries the fold's ordinal as its write time; because all     *)
(* writes use the same TTL, entries expire in write order, so the passage  *)
(* of time is the removal of every entry written at or before some fold.   *)
(*                                                                         *)
(* The stream task (init) is the loop that connects to the feed, forwards  *)
(* the decoded frames to the actor's mailbox and sleeps after a failed     *)
(* connection attempt; each await of the loop is one step.                 *)
(***************************************************************************)
EXTENDS Integers, Sequences, FiniteSets, TLC

VARIABLES cache, clock, last, hist, rpc, conn, mailbox, seen

vars == <<cache, clock, last, hist, rpc, conn, mailbox, seen>>

\* ---------------------------------------------------------------- bounds

\* Number of updates the actor folds in one behaviour.
MaxSteps == 4

\* Number of updates the mailbox holds before the stream task has to wait.
MaxQueued == 2

\* Number of failed connection attempts that are counted.
MaxFailures == 6

\* ------------------------------------------------------ program constants

\* Some(10): the TTL of every cache write of the actor.
TTL == 10

\* U256::from(1000): the placeholder base fee of every assembled block.
PlaceholderBaseFee == 1000

\* mpsc::channel(100): the capacity of the actor's mailbox.
Capacity == 100

\* Duration::from_secs(1): the first value of backoff, in seconds.
InitialBackoff == 1

\* const MAX_BACKOFF: Duration::from_secs(10).
MaxBackoff == 10

\* ------------------------------------------------------------- universes

BlockNumbers == {1, 2}
Indices == {0, 1, 2, 3}
RawTxs == {"rawA", "rawB", "rawD", "rawU"}
Addresses == {"0xa1"}

\* OpTransactionSigned decoded from its EIP-2718 bytes: what the actor and the
\* RPC layer read from it (tx_hash(), recover_signer(), is_deposit(),
\* max_fee_per_gas()).  rawD is a deposit, the signature of rawU recovers no
\* signer.
TxOf(raw) ==
    CASE raw = "rawA" ->
           [hash |-> "0xhA", signer |-> "0xs1", deposit |-> FALSE, max_fee_per_gas |-> 7]
      [] raw = "rawB" ->
           [hash |-> "0xhB", signer |-> "0xs2", deposit |-> FALSE, max_fee_per_gas |-> 9]
      [] raw = "rawD" ->
           [hash |-> "0xhD", signer |-> "0xs3", deposit |-> TRUE, max_fee_per_gas |-> 0]
      [] raw = "rawU" ->
           [hash |-> "0xhU", signer |-> "unrecoverable", deposit |-> FALSE,
            max_fee_per_gas |-> 5]

Hashes == {TxOf(r).hash : r \in RawTxs}

Range(s) == {s[i] : i \in 1..Len(s)}

\* ----------------------------------------------------------------- cache

\* Cache keys, as the format! strings build them.  {:?} of a u64 prints the
\* number; {:?} of a String prints it in double quotes.
DebugStr(s) == <<"\"", s, "\"">>
KBase(n) == <<"base:", n>>
KPending == <<"pending">>
KBlock(n) == <<"block:", n>>
KDiffTxs(n) == <<"diff:transactions:", n>>
KTxHashes(n) == <<"tx_hashes:", n>>
KRaw(s) == <<"", s>>
KTxIdx(h) == <<"tx_idx:", h>>
KTxSender(h) == <<"tx_sender:", h>>
KTxBlockNumber(h) == <<"tx_block_number:", h>>
KTxCount(a, n) == <<"tx_count:", a, n>>
KReceipt(h) == <<"receipt:", DebugStr(h)>>
KReceiptBlock(h) == <<"receipt_block:", DebugStr(h)>>
KPendingReceipts(n) == <<"pending_receipts:", n>>
KHighest == <<"highest_payload_index">>

\* cache.get: present (and not expired) or absent.
Has(c, k) == k \in DOMAIN c
Get(c, k) == c[k].v

\* cache.set(key, value, Some(ttl)) by the fold with ordinal t.
CacheSet(c, k, v, ttl, t) ==
    [x \in DOMAIN c \cup {k} |-> IF x = k THEN [v |-> v, at |-> t, ttl |-> ttl] ELSE c[x]]

\* The cache once every entry written by fold h or an earlier one has expired
\* (all entries have the same TTL, so they expire in write order): an expired
\* entry is absent.
Unexpired(c, h) ==
    LET keep == {k \in DOMAIN c : c[k].at > h}
    IN [k \in keep |-> c[k]]

\* cache.set returns Err for the keys of the families in `fail` (the cache
\* serialises the value and reports a failure to its caller).
SetFails(k, fail) == k[1] \in fail

\* --------------------------------------------------------------- updates

\* ExecutionPayloadBaseV1 of block n; g tells two bases of one block apart
\* and every field carries a value of its own.
MkBase(n, g) ==
    [parent_hash |-> 10 + g, parent_beacon_block_root |-> 20 + g,
     fee_recipient |-> 30 + g, block_number |-> n, gas_limit |-> 40 + g,
     timestamp |-> 50 + g, prev_randao |-> 60 + g, extra_data |-> 70 + g,
     base_fee_per_gas |-> 80 + g]

\* ExecutionPayloadFlashblockDeltaV1 with the transactions txs.
MkDiff(txs, g) ==
    [transactions |-> txs, withdrawals |-> <<>>, state_root |-> 110 + g,
     receipts_root |-> 120 + g, logs_bloom |-> 130 + g, gas_used |-> 140 + g,
     block_hash |-> 150 + g]

\* OpReceipt of the transaction with hash h, as the update tagged g reports
\* it: OpReceipt::Deposit, with its deposit nonce and version, for the
\* deposit, OpReceipt::Legacy for the others.
MkReceipt(h, g) ==
    IF h = "0xhD"
    THEN [tx |-> h, cumulative_gas_used |-> 21000 * g, kind |-> "Deposit",
          deposit_nonce |-> 40 + g, deposit_receipt_version |-> 1]
    ELSE [tx |-> h, cumulative_gas_used |-> 21000 * g, kind |-> "Legacy"]

NoBase == [some |-> FALSE]
SomeBase(b) == [some |-> TRUE, v |-> b]

\* Metadata that serde_json::from_value cannot decode.
BadMetadata == [ok |-> FALSE]

\* Metadata: receipts for the hashes in rs, a balance for the addresses in as.
MkMetadata(n, rs, as, g) ==
    [ok |-> TRUE, block_number |-> n,
     receipts |-> [h \in rs |-> MkReceipt(h, g)],
     new_account_balances |-> [a \in as |-> 1000 + g]]

\* FlashblocksPayloadV1.
MkPayload(index, base, diff, metadata) ==
    [index |-> index, base |-> base, diff |-> diff, metadata |-> metadata]

\* ------------------------------------------------------------- the actor

\* update_flashblocks_index without the comparison: the tracker follows the
\* index of the latest update.
UpdateFlashblocksIndexLatest(c, index, t, fail) ==
    IF SetFails(KHighest, fail) THEN c
    ELSE CacheSet(c, KHighest, index, TTL, t)

\* update_flashblocks_index: the tracker after an update with this index.
UpdateFlashblocksIndex(c, index, t, fail) ==
    IF SetFails(KHighest, fail) THEN c
    ELSE IF index = 0 THEN CacheSet(c, KHighest, 0, TTL, t)
    ELSE IF index > (IF Has(c, KHighest) THEN Get(c, KHighest) ELSE 0)
    THEN CacheSet(c, KHighest, index, TTL, t)
    ELSE c

\* The recorded count without the one added for index 0.
FlashblocksInBlockHighest(c, index) ==
    IF index = 0 /\ Has(c, KHighest) THEN Get(c, KHighest) ELSE 0

\* update_flashblocks_index: the flashblock count it records for the block
\* that just ended (0: nothing is recorded).
FlashblocksInBlock(c, index) ==
    IF index = 0 /\ Has(c, KHighest) THEN Get(c, KHighest) + 1 ELSE 0

\* get_and_set_transactions that chains the cached list after the update's
\* transactions.
GetAndSetTransactionsPrepending(c, transactions, payload_index, block_number, t, fail) ==
    IF payload_index # 0 /\ ~Has(c, KDiffTxs(block_number))
    THEN [ok |-> FALSE, cache |-> c, txs |-> <<>>]
    ELSE IF SetFails(KDiffTxs(block_number), fail)
    THEN [ok |-> FALSE, cache |-> c, txs |-> <<>>]
    ELSE LET txs == IF payload_index = 0
                    THEN transactions
                    ELSE transactions \o Get(c, KDiffTxs(block_number))
         IN [ok |-> TRUE, txs |-> txs,
             cache |-> CacheSet(c, KDiffTxs(block_number), txs, TTL, t)]

\* get_and_set_transactions: the cumulative list of the block, cached.
GetAndSetTransactions(c, transactions, payload_index, block_number, t, fail) ==
    IF payload_index # 0 /\ ~Has(c, KDiffTxs(block_number))
    THEN [ok |-> FALSE, cache |-> c, txs |-> <<>>]
    ELSE IF SetFails(KDiffTxs(block_number), fail)
    THEN [ok |-> FALSE, cache |-> c, txs |-> <<>>]
    ELSE LET txs == IF payload_index = 0
                    THEN transactions
                    ELSE Get(c, KDiffTxs(block_number)) \o transactions
         IN [ok |-> TRUE, txs |-> txs,
             cache |-> CacheSet(c, KDiffTxs(block_number), txs, TTL, t)]

\* Whether the bytes decode to a transaction (Decodable2718).
Decodable(raw) == raw \in RawTxs

\* ExecutionPayloadV3::try_into_block: the header from the payload's fields
\* and the decoded transactions; the payload's block_hash is not a field of
\* the block.  Fails when a transaction does not decode.
TryIntoBlock(payload) ==
    IF \E i \in 1..Len(payload.transactions) : ~Decodable(payload.transactions[i])
    THEN [ok |-> FALSE]
    ELSE [ok |-> TRUE,
          block |->
            [header |->
               [parent_hash |-> payload.parent_hash,
                beneficiary |-> payload.fee_recipient,
                state_root |-> payload.state_root,
                receipts_root |-> payload.receipts_root,
                logs_bloom |-> payload.logs_bloom,
                number |-> payload.block_number,
                gas_limit |-> payload.gas_limit,
                gas_used |-> payload.gas_used,
                timestamp |-> payload.timestamp,
                mix_hash |-> payload.prev_randao,
                extra_data |-> payload.extra_data,
                base_fee_per_gas |-> payload.base_fee_per_gas],
             body |->
               [transactions |->
                  [i \in 1..Len(payload.transactions) |-> TxOf(payload.transactions[i])]]]]

\* The assembly with the gas used read from the base's gas limit.
ExecutionPayloadGasFromBase(base, diff, transactions) ==
    [parent_hash |-> base.parent_hash,
     fee_recipient |-> base.fee_recipient,
     state_root |-> diff.state_root,
     receipts_root |-> diff.receipts_root,
     logs_bloom |-> diff.logs_bloom,
     prev_randao |-> base.prev_randao,
     block_number |-> base.block_number,
     gas_limit |-> base.gas_limit,
     gas_used |-> base.gas_limit,
     timestamp |-> base.timestamp,
     extra_data |-> base.extra_data,
     base_fee_per_gas |-> PlaceholderBaseFee,
     block_hash |-> diff.block_hash,
     transactions |-> transactions,
     withdrawals |-> diff.withdrawals]

\* The assembly with the base fee of the base.
ExecutionPayloadFeeFromBase(base, diff, transactions) ==
    [parent_hash |-> base.parent_hash,
     fee_recipient |-> base.fee_recipient,
     state_root |-> diff.state_root,
     receipts_root |-> diff.receipts_root,
     logs_bloom |-> diff.logs_bloom,
     prev_randao |-> base.prev_randao,
     block_number |-> base.block_number,
     gas_limit |-> base.gas_limit,
     gas_used |-> diff.gas_used,
     timestamp |-> base.timestamp,
     extra_data |-> base.extra_data,
     base_fee_per_gas |-> base.base_fee_per_gas,
     block_hash |-> diff.block_hash,
     transactions |-> transactions,
     withdrawals |-> diff.withdrawals]

\* The ExecutionPayloadV3 process_payload assembles from the base, the
\* update's diff and the cumulative transactions.
ExecutionPayload(base, diff, transactions) ==
    [parent_hash |-> base.parent_hash,
     fee_recipient |-> base.fee_recipient,
     state_root |-> diff.state_root,
     receipts_root |-> diff.receipts_root,
     logs_bloom |-> diff.logs_bloom,
     prev_randao |-> base.prev_randao,
     block_number |-> base.block_number,
     gas_limit |-> base.gas_limit,
     gas_used |-> diff.gas_used,
     timestamp |-> base.timestamp,
     extra_data |-> base.extra_data,
     base_fee_per_gas |-> PlaceholderBaseFee,
     block_hash |-> diff.block_hash,
     transactions |-> transactions,
     withdrawals |-> diff.withdrawals]

\* header.seal_slow(): the hash of the block is computed from the fields of
\* its header (keccak256 of their RLP): a digest of the header and of nothing
\* else.
HashSlow(header) ==
    (header.parent_hash + 3 * header.beneficiary + 5 * header.state_root
     + 7 * header.receipts_root + 11 * header.logs_bloom + 13 * header.number
     + 17 * header.gas_limit + 19 * header.gas_used + 23 * header.timestamp
     + 29 * header.mix_hash + 31 * header.extra_data
     + 37 * header.base_fee_per_gas) % 65536

\* recover_signer() succeeded.
SignerRecovered(tx) == tx.signer # "unrecoverable"

\* A run of cache.set calls, in order.  A failed set with stop = TRUE ends
\* the loop iteration it belongs to (`continue`); done says so.
RECURSIVE ApplyWrites(_, _, _, _, _)
ApplyWrites(c, ws, i, t, fail) ==
    IF i > Len(ws) THEN [cache |-> c, done |-> FALSE]
    ELSE IF SetFails(ws[i].k, fail)
         THEN IF ws[i].stop THEN [cache |-> c, done |-> TRUE]
              ELSE ApplyWrites(c, ws, i + 1, t, fail)
         ELSE ApplyWrites(CacheSet(c, ws[i].k, ws[i].v, TTL, t), ws, i + 1, t, fail)

\* The entries one loop iteration of get_and_set_txs_and_receipts writes for
\* a transaction whose raw entry is not cached: the transaction, its
\* position and, when the signer is recovered, the sender's count for the
\* block (one more than the cached count), the sender and the block number.
IndexWrites(c, idx, tx, block_number) ==
    IF Has(c, KRaw(tx.hash)) THEN <<>>
    ELSE <<[k |-> KRaw(tx.hash), v |-> tx, stop |-> TRUE],
           [k |-> KTxIdx(tx.hash), v |-> idx, stop |-> TRUE]>>
         \o (IF ~SignerRecovered(tx) THEN <<>>
             ELSE <<[k |-> KTxCount(tx.signer, block_number),
                     v |-> (IF Has(c, KTxCount(tx.signer, block_number))
                            THEN Get(c, KTxCount(tx.signer, block_number))
                            ELSE 0) + 1,
                     stop |-> FALSE],
                    [k |-> KTxSender(tx.hash), v |-> tx.signer, stop |-> FALSE],
                    [k |-> KTxBlockNumber(tx.hash), v |-> block_number, stop |-> FALSE]>>)

\* The entries the iteration writes for a transaction the metadata has a
\* receipt for.
ReceiptWrites(tx, block_number, metadata) ==
    IF tx.hash \notin DOMAIN metadata.receipts THEN <<>>
    ELSE <<[k |-> KReceipt(tx.hash), v |-> metadata.receipts[tx.hash], stop |-> TRUE],
           [k |-> KReceiptBlock(tx.hash), v |-> block_number, stop |-> TRUE]>>

\* The hash list with the hash appended, no look-up.
PushAlways(tx_hashes, tx_hash) == Append(tx_hashes, tx_hash)

\* The hash list with the hash appended unless it is in it.
PushIfNew(tx_hashes, tx_hash) ==
    IF tx_hash \in Range(tx_hashes) THEN tx_hashes ELSE Append(tx_hashes, tx_hash)

\* End of an iteration: the receipt is pushed when both its entries were set.
AfterReceipt(rx, st, tx, metadata) ==
    [cache |-> rx.cache,
     tx_hashes |-> PushIfNew(st.tx_hashes, tx.hash),
     diff_receipts |-> IF rx.done \/ tx.hash \notin DOMAIN metadata.receipts
                       THEN st.diff_receipts
                       ELSE Append(st.diff_receipts, metadata.receipts[tx.hash])]

\* Middle of an iteration: after the index entries, the receipt entries
\* unless the iteration ended.
AfterIndex(ix, st, tx, block_number, metadata, t, fail) ==
    IF ix.done
    THEN [cache |-> ix.cache, tx_hashes |-> PushIfNew(st.tx_hashes, tx.hash),
          diff_receipts |-> st.diff_receipts]
    ELSE AfterReceipt(ApplyWrites(ix.cache, ReceiptWrites(tx, block_number, metadata), 1, t, fail),
                      st, tx, metadata)

\* One iteration of the loop of get_and_set_txs_and_receipts, for the
\* transaction at position idx (from 0) of the block.
TxIteration(st, idx, tx, block_number, metadata, t, fail) ==
    AfterIndex(ApplyWrites(st.cache, IndexWrites(st.cache, idx, tx, block_number), 1, t, fail),
               st, tx, block_number, metadata, t, fail)

RECURSIVE TxLoop(_, _, _, _, _, _, _)
TxLoop(st, i, txs, block_number, metadata, t, fail) ==
    IF i > Len(txs) THEN st
    ELSE TxLoop(TxIteration(st, i - 1, txs[i], block_number, metadata, t, fail),
                i + 1, txs, block_number, metadata, t, fail)

\* End of get_and_set_txs_and_receipts: the hash list is cached and the
\* receipts of this update are returned.
SetTxHashes(st, block_number, t, fail) ==
    [cache |-> IF SetFails(KTxHashes(block_number), fail) THEN st.cache
               ELSE CacheSet(st.cache, KTxHashes(block_number), st.tx_hashes, TTL, t),
     diff_receipts |-> st.diff_receipts]

\* get_and_set_txs_and_receipts: index every transaction of the block, cache
\* the receipts the metadata has for them, cache the hash list.
GetAndSetTxsAndReceipts(c, block, block_number, metadata, t, fail) ==
    SetTxHashes(
        TxLoop([cache |-> c,
                tx_hashes |-> IF Has(c, KTxHashes(block_number))
                              THEN Get(c, KTxHashes(block_number))
                              ELSE <<>>,
                diff_receipts |-> <<>>],
               1, block.body.transactions, block_number, metadata, t, fail),
        block_number, t, fail)

\* get_and_set_all_receipts: the cumulative receipt list of the block, cached.
GetAndSetAllReceipts(c, payload_index, block_number, diff_receipts, t, fail) ==
    IF payload_index # 0 /\ ~Has(c, KPendingReceipts(block_number))
    THEN [ok |-> FALSE, cache |-> c]
    ELSE IF SetFails(KPendingReceipts(block_number), fail)
    THEN [ok |-> FALSE, cache |-> c]
    ELSE [ok |-> TRUE,
          cache |-> CacheSet(c, KPendingReceipts(block_number),
                             IF payload_index = 0
                             THEN diff_receipts
                             ELSE Get(c, KPendingReceipts(block_number)) \o diff_receipts,
                             TTL, t)]

\* The loop storing a balance only for the addresses that have none cached.
RECURSIVE StoreBalancesIfAbsent(_, _, _, _, _)
StoreBalancesIfAbsent(c, balances, todo, t, fail) ==
    IF todo = {} THEN c
    ELSE LET address == CHOOSE a \in todo : TRUE
         IN StoreBalancesIfAbsent(
                IF SetFails(KRaw(address), fail) \/ Has(c, KRaw(address)) THEN c
                ELSE CacheSet(c, KRaw(address), balances[address], TTL, t),
                balances, todo \ {address}, t, fail)

\* The loop that stores the account balances of the metadata (one key each,
\* so the order of the map's iteration does not matter).
RECURSIVE StoreBalances(_, _, _, _, _)
StoreBalances(c, balances, todo, t, fail) ==
    IF todo = {} THEN c
    ELSE LET address == CHOOSE a \in todo : TRUE
         IN StoreBalances(IF SetFails(KRaw(address), fail) THEN c
                          ELSE CacheSet(c, KRaw(address), balances[address], TTL, t),
                          balances, todo \ {address}, t, fail)

\* process_payload, last part: the cumulative receipts were merged (or not).
FoldBalances(all, metadata, t, fail) ==
    IF ~all.ok THEN [cache |-> all.cache, out |-> "receipts_failed"]
    ELSE [cache |-> StoreBalances(all.cache, metadata.new_account_balances,
                                  DOMAIN metadata.new_account_balances, t, fail),
          out |-> "applied"]

\* process_payload: the receipts of the update are merged into the block's list.
FoldReceipts(txr, payload, metadata, t, fail) ==
    FoldBalances(GetAndSetAllReceipts(txr.cache, payload.index, metadata.block_number,
                                      txr.diff_receipts, t, fail),
                 metadata, t, fail)

\* process_payload: the block is cached as "pending" and as block:<number>,
\* then indexed.
FoldBlock(c, block, payload, metadata, t, fail) ==
    IF SetFails(KPending, fail) THEN [cache |-> c, out |-> "pending_set_failed"]
    ELSE IF SetFails(KBlock(metadata.block_number), fail)
    THEN [cache |-> CacheSet(c, KPending, block, TTL, t), out |-> "block_set_failed"]
    ELSE FoldReceipts(
             GetAndSetTxsAndReceipts(
                 CacheSet(CacheSet(c, KPending, block, TTL, t),
                          KBlock(metadata.block_number), block, TTL, t),
                 block, metadata.block_number, metadata, t, fail),
             payload, metadata, t, fail)

\* process_payload: the outcome of try_into_block.
FoldConverted(c, converted, payload, metadata, t, fail) ==
    IF ~converted.ok THEN [cache |-> c, out |-> "assembly_failed"]
    ELSE FoldBlock(c, converted.block, payload, metadata, t, fail)

\* process_payload: the outcome of get_and_set_transactions, then the assembly.
FoldTransactions(got, base, payload, metadata, t, fail) ==
    IF ~got.ok THEN [cache |-> got.cache, out |-> "transactions_failed"]
    ELSE FoldConverted(got.cache,
                       TryIntoBlock(ExecutionPayload(base, payload.diff, got.txs)),
                       payload, metadata, t, fail)

\* process_payload with the base resolved.
FoldBase(c, base, payload, metadata, t, fail) ==
    FoldTransactions(
        GetAndSetTransactions(c, payload.diff.transactions, payload.index,
                              metadata.block_number, t, fail),
        base, payload, metadata, t, fail)

\* process_payload: the base of the update is cached, or the cached one is loaded.
ResolveBase(c, payload, metadata, t, fail) ==
    IF payload.base.some
    THEN IF SetFails(KBase(metadata.block_number), fail)
         THEN [cache |-> c, out |-> "base_set_failed"]
         ELSE FoldBase(CacheSet(c, KBase(metadata.block_number), payload.base.v, TTL, t),
                       payload.base.v, payload, metadata, t, fail)
    ELSE IF ~Has(c, KBase(metadata.block_number))
         THEN [cache |-> c, out |-> "base_missing"]
         ELSE FoldBase(c, Get(c, KBase(metadata.block_number)), payload, metadata, t, fail)

\* The stale-block check off by one: a block one behind the pending one passes.
IsStaleByTwo(c, block_number) ==
    Has(c, KPending) /\ Get(c, KPending).header.number > block_number + 1

\* The stale-block check of process_payload: a pending block with a greater
\* number than the update's is cached.
IsStale(c, block_number) ==
    Has(c, KPending) /\ Get(c, KPending).header.number > block_number

\* The check that rejects the pending block's own number as well.
CheckStaleOrSame(c, payload, metadata, t, fail) ==
    IF Has(c, KPending) /\ Get(c, KPending).header.number >= metadata.block_number
    THEN [cache |-> c, out |-> "stale"]
    ELSE ResolveBase(c, payload, metadata, t, fail)

\* process_payload after the tracker update: older blocks are not folded.
CheckStale(c, payload, metadata, t, fail) ==
    IF IsStale(c, metadata.block_number) THEN [cache |-> c, out |-> "stale"]
    ELSE ResolveBase(c, payload, metadata, t, fail)

\* The gate as the comment above it words it ("Skip if index is 0 and base is
\* not cached").
MissesBaseAtZero(c, payload) ==
    payload.index = 0 /\ ~Has(c, KBase(payload.metadata.block_number))

\* The zero-index gate of process_payload.
MissesBase(c, payload) ==
    payload.index # 0 /\ ~Has(c, KBase(payload.metadata.block_number))

\* The fold that updates the tracker before it decodes the metadata.
ProcessPayloadTrackingFirst(c, payload, t, fail) ==
    IF ~payload.metadata.ok
    THEN [cache |-> UpdateFlashblocksIndex(c, payload.index, t, fail),
          out |-> "bad_metadata"]
    ELSE IF MissesBase(c, payload) THEN [cache |-> c, out |-> "no_base"]
    ELSE CheckStale(UpdateFlashblocksIndex(c, payload.index, t, fail),
                    payload, payload.metadata, t, fail)

\* process_payload: the cache after the fold of `payload`, and how the fold ended.
ProcessPayload(c, payload, t, fail) ==
    IF ~payload.metadata.ok THEN [cache |-> c, out |-> "bad_metadata"]
    ELSE IF MissesBase(c, payload) THEN [cache |-> c, out |-> "no_base"]
    ELSE CheckStale(UpdateFlashblocksIndex(c, payload.index, t, fail),
                    payload, payload.metadata, t, fail)

\* ----------------------------------------------------------- the RPC layer

\* A handler that panicked (an unwrap of None or of Err): it returns nothing.
Panicked == [kind |-> "panic"]

\* Ok(None): "not found".
NotFound == [kind |-> "none"]

\* transform_tx panics for a deposit whose receipt is not cached.
TransformTxPanics(c, tx) == tx.deposit /\ ~Has(c, KReceipt(tx.hash))

\* transform_tx: the RPC transaction of tx at position idx (from 0) of the
\* block with this number.  No base fee is passed, so the effective gas price
\* is the transaction's max fee per gas, 0 for a deposit; a deposit gets the
\* nonce and version of its cached receipt (0 stands for None).
TransformTx(c, tx, idx, block_number) ==
    [hash |-> tx.hash, from |-> tx.signer, block_hash |-> "None",
     block_number |-> block_number, transaction_index |-> idx,
     effective_gas_price |-> IF tx.deposit THEN 0 ELSE tx.max_fee_per_gas,
     deposit_nonce |-> IF tx.deposit /\ Get(c, KReceipt(tx.hash)).kind = "Deposit"
                       THEN Get(c, KReceipt(tx.hash)).deposit_nonce
                       ELSE 0,
     deposit_receipt_version |-> IF tx.deposit /\ Get(c, KReceipt(tx.hash)).kind = "Deposit"
                                 THEN Get(c, KReceipt(tx.hash)).deposit_receipt_version
                                 ELSE 0]

\* transform_block: the RPC block of the cached block, its header sealed with
\* the hash computed from it, its transactions as hashes or, if full, as RPC
\* transactions with their recovered senders.  Panics if full and a signer is
\* not recovered or transform_tx panics.
TransformBlock(c, block, full) ==
    IF full /\ \E i \in 1..Len(block.body.transactions) :
                   \/ ~SignerRecovered(block.body.transactions[i])
                   \/ TransformTxPanics(c, block.body.transactions[i])
    THEN Panicked
    ELSE [kind |-> "block",
          header |-> [hash |-> HashSlow(block.header), inner |-> block.header],
          transactions |->
            IF full
            THEN [kind |-> "Full",
                  v |-> [i \in 1..Len(block.body.transactions) |->
                           TransformTx(c, block.body.transactions[i], i - 1,
                                       block.header.number)]]
            ELSE [kind |-> "Hashes",
                  v |-> [i \in 1..Len(block.body.transactions) |->
                           block.body.transactions[i].hash]],
          uncles |-> <<>>,
          withdrawals |-> "None"]

\* block_by_number that asks BaseNode when no pending block is cached.
BlockByNumberFallingThrough(c, number, full, node) ==
    IF number = "pending" /\ Has(c, KPending)
    THEN [result |-> TransformBlock(c, Get(c, KPending), full), calls |-> <<>>]
    ELSE [result |-> node,
          calls |-> <<[method |-> "rpc_block", number |-> number, full |-> full]>>]

\* block_by_number: what it returns and the calls it makes to BaseNode, whose
\* answer to rpc_block(number, full) is node.
BlockByNumber(c, number, full, node) ==
    IF number = "pending"
    THEN [result |-> IF Has(c, KPending)
                     THEN TransformBlock(c, Get(c, KPending), full)
                     ELSE NotFound,
          calls |-> <<>>]
    ELSE [result |-> node,
          calls |-> <<[method |-> "rpc_block", number |-> number, full |-> full]>>]

\* reth_optimism_evm::extract_l1_info: the L1 attributes are read from the
\* first transaction of the block, which must be the L1 info deposit (rawD);
\* Err for a block without one.
ExtractL1Info(body) ==
    Len(body.transactions) > 0 /\ body.transactions[1].hash = "0xhD"

\* transform_receipt panics on an unwrap: the raw transaction, the block,
\* the transaction's index or the block's receipt list is not cached.
TransformReceiptPanics(c, tx_hash, block_number) ==
    \/ ~Has(c, KRaw(tx_hash))
    \/ ~Has(c, KBlock(block_number))
    \/ ~Has(c, KTxIdx(tx_hash))
    \/ ~Has(c, KPendingReceipts(block_number))

\* The gas used by the transaction at position index: its receipt's
\* cumulative gas less that of the receipt before it in the block's list.
GasUsed(receipt, index, all_receipts) ==
    IF index = 0 THEN receipt.cumulative_gas_used
    ELSE IF index <= Len(all_receipts)
    THEN receipt.cumulative_gas_used - all_receipts[index].cumulative_gas_used
    ELSE 0

\* OpReceiptBuilder::new(..).build(): the RPC receipt from the transaction,
\* its meta data (taken from the cached block), the receipt and the block's
\* receipt list.
BuildReceipt(tx, index, block, receipt, all_receipts) ==
    [kind |-> "receipt", transaction_hash |-> tx.hash,
     transaction_index |-> index,
     block_hash |-> HashSlow(block.header),
     block_number |-> block.header.number,
     from |-> tx.signer,
     cumulative_gas_used |-> receipt.cumulative_gas_used,
     gas_used |-> GasUsed(receipt, index, all_receipts)]

\* transform_receipt: it panics too when the block has no L1 info (expect)
\* or the receipt cannot be built for want of a signer (expect).
TransformReceipt(c, receipt, tx_hash, block_number) ==
    IF TransformReceiptPanics(c, tx_hash, block_number) THEN Panicked
    ELSE IF ~ExtractL1Info(Get(c, KBlock(block_number)).body) THEN Panicked
    ELSE IF ~SignerRecovered(Get(c, KRaw(tx_hash))) THEN Panicked
    ELSE BuildReceipt(Get(c, KRaw(tx_hash)), Get(c, KTxIdx(tx_hash)),
                      Get(c, KBlock(block_number)), receipt,
                      Get(c, KPendingReceipts(block_number)))

\* get_transaction_receipt that looks in the cache before it asks BaseNode.
GetTransactionReceiptCacheFirst(c, tx_hash, node) ==
    IF Has(c, KReceipt(tx_hash))
    THEN [result |-> IF ~Has(c, KReceiptBlock(tx_hash)) THEN Panicked
                     ELSE TransformReceipt(c, Get(c, KReceipt(tx_hash)), tx_hash,
                                           Get(c, KReceiptBlock(tx_hash))),
          calls |-> <<>>]
    ELSE [result |-> node,
          calls |-> <<[method |-> "transaction_receipt", tx_hash |-> tx_hash]>>]

\* get_transaction_receipt: BaseNode is asked; only its Ok(None) makes the
\* handler look for a cached receipt, which it transforms.
GetTransactionReceipt(c, tx_hash, node) ==
    [result |-> IF node = NotFound /\ Has(c, KReceipt(tx_hash))
                THEN IF ~Has(c, KReceiptBlock(tx_hash)) THEN Panicked
                     ELSE TransformReceipt(c, Get(c, KReceipt(tx_hash)), tx_hash,
                                           Get(c, KReceiptBlock(tx_hash)))
                ELSE node,
     calls |-> <<[method |-> "transaction_receipt", tx_hash |-> tx_hash]>>]

\* Address as Display prints it (address.to_string()): the EIP-55 mixed-case
\* checksum text.  An address value is written as its lower-case hex text,
\* the form its serde serialisation has.
AddressToString(address) ==
    CASE address = "0xa1" -> "0xA1"
      [] address = "0xs1" -> "0xS1"
      [] address = "0xs2" -> "0xS2"
      [] address = "0xs3" -> "0xS3"

\* The block the request names: BlockId::default() is latest.
UnwrapOrDefault(block_number) ==
    IF block_number = "none" THEN "latest" ELSE block_number

\* get_balance that reads the cache whatever block is asked for.
GetBalanceAnyBlock(c, address, block_number, node) ==
    IF Has(c, KRaw(AddressToString(address)))
    THEN [result |-> [kind |-> "balance", value |-> Get(c, KRaw(AddressToString(address)))],
          calls |-> <<>>]
    ELSE [result |-> node,
          calls |-> <<[method |-> "balance", address |-> address,
                       block |-> block_number]>>]

\* get_balance: at pending the entry under the address's text is returned
\* when there is one; in every other case BaseNode is asked.
GetBalance(c, address, block_number, node) ==
    IF UnwrapOrDefault(block_number) = "pending"
       /\ Has(c, KRaw(AddressToString(address)))
    THEN [result |-> [kind |-> "balance", value |-> Get(c, KRaw(AddressToString(address)))],
          calls |-> <<>>]
    ELSE [result |-> node,
          calls |-> <<[method |-> "balance", address |-> address,
                       block |-> block_number]>>]

\* cache.get::<u64>("tx_count:<address>:<number>").unwrap_or(0).
TxCount(c, address, number) ==
    IF Has(c, KTxCount(address, number)) THEN Get(c, KTxCount(address, number)) ELSE 0

\* get_transaction_count that adds the count kept for the latest block's own
\* number.
GetTransactionCountOfLatest(c, address, block_number, node) ==
    IF UnwrapOrDefault(block_number) # "pending"
    THEN [result |-> node.count,
          calls |-> <<[method |-> "transaction_count", address |-> address,
                       block |-> block_number]>>]
    ELSE IF node.count.kind = "error"
    THEN [result |-> node.count,
          calls |-> <<[method |-> "transaction_count", address |-> address,
                       block |-> "latest"]>>]
    ELSE [result |->
            IF node.header.kind = "error" THEN node.header
            ELSE IF node.header = NotFound THEN node.count
            ELSE [kind |-> "count",
                  value |-> node.count.value + TxCount(c, address, node.header.number)],
          calls |-> <<[method |-> "transaction_count", address |-> address,
                       block |-> "latest"],
                      [method |-> "rpc_block_header", block |-> "latest"]>>]

\* get_transaction_count: at pending, BaseNode's count at latest plus the
\* count kept for the block after BaseNode's latest header; BaseNode's count
\* alone when it has no latest header; in every other case BaseNode's count
\* at the block asked for.
GetTransactionCount(c, address, block_number, node) ==
    IF UnwrapOrDefault(block_number) # "pending"
    THEN [result |-> node.count,
          calls |-> <<[method |-> "transaction_count", address |-> address,
                       block |-> block_number]>>]
    ELSE IF node.count.kind = "error"
    THEN [result |-> node.count,
          calls |-> <<[method |-> "transaction_count", address |-> address,
                       block |-> "latest"]>>]
    ELSE [result |->
            IF node.header.kind = "error" THEN node.header
            ELSE IF node.header = NotFound THEN node.count
            ELSE [kind |-> "count",
                  value |-> node.count.value + TxCount(c, address, node.header.number + 1)],
          calls |-> <<[method |-> "transaction_count", address |-> address,
                       block |-> "latest"],
                      [method |-> "rpc_block_header", block |-> "latest"]>>]

\* TransactionRequest::from_transaction: the request that replays a
\* transaction of the block.
FromTransaction(tx) == [replays |-> tx.hash]

\* The transactions of the cached pending block, none when no block is
\* cached (unwrap_or_default).
PendingTransactions(c) ==
    IF Has(c, KPending) THEN Get(c, KPending).body.transactions ELSE <<>>

\* The bundle of a pending call: the pending block's transactions as
\* requests, then the call.
BundleOf(c, transaction) ==
    Append([i \in 1..Len(PendingTransactions(c)) |->
               FromTransaction(PendingTransactions(c)[i])],
           transaction)

\* The EthCallResponse list of call_many for a bundle of n requests, one
\* response per request in order: the response of request i carries the
\* value i, or no value when the request reverted.
ResponsesOf(many, n) ==
    [i \in 1..n |->
        IF (i = 1 /\ "first" \in many.reverted) \/ (i = n /\ "last" \in many.reverted)
        THEN [some |-> FALSE]
        ELSE [some |-> TRUE, v |-> i]]

\* alloy_primitives::Bytes of a response: its value, the empty bytes (0)
\* when it has none.
ValueOrDefault(response) ==
    [kind |-> "bytes", value |-> IF response.some THEN response.v ELSE 0]

\* responses.first().map_or_else(Bytes::default, |r| r.value.unwrap_or_default()).
PickedResponse(responses) ==
    IF Len(responses) = 0 THEN [kind |-> "bytes", value |-> 0]
    ELSE ValueOrDefault(responses[1])

\* call: at pending one bundle is simulated by call_many in the pending
\* context and one response is picked; in every other case EthCall::call.
EthCall(c, transaction, block_number, node) ==
    IF UnwrapOrDefault(block_number) = "pending"
    THEN [result |-> IF node.many.kind = "error" THEN node.many
                     ELSE PickedResponse(
                              ResponsesOf(node.many, Len(BundleOf(c, transaction)))),
          calls |-> <<[method |-> "call_many",
                       bundles |-> <<BundleOf(c, transaction)>>,
                       context |-> [block_number |-> "pending",
                                    transaction_index |-> "none"]]>>]
    ELSE [result |-> node.call,
          calls |-> <<[method |-> "call", transaction |-> transaction,
                       block |-> block_number]>>]

\* ------------------------------------------------------- the stream task

Min(a, b) == IF a < b THEN a ELSE b

\* A backoff that grows by one second.
NextBackoffAdding(backoff) == Min(backoff + 1, MaxBackoff)

\* backoff = std::cmp::min(backoff * 2, MAX_BACKOFF).
NextBackoff(backoff) == Min(backoff * 2, MaxBackoff)

\* String::from_utf8(bytes.to_vec()): the text of the bytes, Err when they
\* are not UTF-8.
FromUtf8(bytes) ==
    IF bytes.utf8 THEN [ok |-> TRUE, v |-> bytes.text] ELSE [ok |-> FALSE]

\* serde_json::from_str::<FlashblocksPayloadV1>(&text): the update the text
\* encodes, Err when it encodes none.
FromStr(text) ==
    IF text.json THEN [ok |-> TRUE, v |-> text.payload] ELSE [ok |-> FALSE]

\* The match on a message that breaks out of the read loop when a binary
\* frame does not decode.
OnMessageClosingOnMalformed(msg) ==
    IF msg.type = "Binary"
    THEN IF ~FromUtf8(msg.bytes).ok THEN [then |-> "break", send |-> <<>>]
         ELSE IF ~FromStr(FromUtf8(msg.bytes).v).ok THEN [then |-> "break", send |-> <<>>]
         ELSE [then |-> "continue", send |-> <<FromStr(FromUtf8(msg.bytes).v).v>>]
    ELSE IF msg.type = "Close" THEN [then |-> "break", send |-> <<>>]
    ELSE [then |-> "continue", send |-> <<>>]

\* The match on a message of the connection: a binary frame is decoded and
\* sent to the actor, or dropped when it does not decode; a close frame ends
\* the read loop; every other message (text, ping, pong) is passed over.
OnMessage(msg) ==
    IF msg.type = "Binary"
    THEN IF ~FromUtf8(msg.bytes).ok THEN [then |-> "continue", send |-> <<>>]
         ELSE IF ~FromStr(FromUtf8(msg.bytes).v).ok THEN [then |-> "continue", send |-> <<>>]
         ELSE [then |-> "continue", send |-> <<FromStr(FromUtf8(msg.bytes).v).v>>]
    ELSE IF msg.type = "Close" THEN [then |-> "break", send |-> <<>>]
    ELSE [then |-> "continue", send |-> <<>>]

\* One item of read.next(): a message, a receive error, or the end of the
\* stream.
OnItem(item) ==
    IF item.kind = "msg" THEN OnMessage(item.msg)
    ELSE [then |-> "break", send |-> <<>>]

\* A channel that is never full.
FullNever(q) == FALSE

\* The channel of mpsc::channel(100) holds 100 messages: send waits.
Full(q) == Len(q) >= Capacity

\* A receiver that takes the newest message of the channel.
TakeNewest(q) ==
    [message |-> q[Len(q)], rest |-> SubSeq(q, 1, Len(q) - 1)]

\* mailbox.recv(): the oldest message of the channel, and the channel
\* without it.
TakeNext(q) == [message |-> Head(q), rest |-> Tail(q)]

\* The task that stays asleep once the backoff has reached its cap.
ResumeGivingUp(w) ==
    IF w.backoff = MaxBackoff THEN w
    ELSE [pc |-> "connecting", backoff |-> NextBackoff(w.backoff)]

\* After the sleep: the backoff is raised and the loop goes on (continue) to
\* the next connect_async.
Resume(w) == [pc |-> "connecting", backoff |-> NextBackoff(w.backoff)]

\* ------------------------------------------------------------ behaviours

NoUpdate == [index |-> 0, base |-> NoBase, diff |-> MkDiff(<<>>, 0), metadata |-> BadMetadata]

\* How far a fold with this outcome went in process_payload.
PassedGate(out) == out \notin {"none", "expired", "bad_metadata", "no_base"}
PassedStale(out) == PassedGate(out) /\ out # "stale"
ReachedAssembly(out) ==
    out \in {"assembly_failed", "pending_set_failed", "block_set_failed",
             "receipts_failed", "applied"}
ReachedIndexing(out) == out \in {"receipts_failed", "applied"}

MaxOf(a, b) == IF a > b THEN a ELSE b

HashesOf(raws) == [i \in 1..Len(raws) |-> TxOf(raws[i]).hash]

\* The elements of s at the positions in idx, from position i on, in order.
RECURSIVE Gather(_, _, _)
Gather(s, idx, i) ==
    IF i > Len(s) THEN <<>>
    ELSE (IF i \in idx THEN <<s[i]>> ELSE <<>>) \o Gather(s, idx, i + 1)

\* s without the repetitions: each element where it first occurs.
FirstOccurrences(s) ==
    Gather(s, {i \in 1..Len(s) : \A j \in 1..(i - 1) : s[j] # s[i]}, 1)

\* The history of the updates the actor folded, kept beside the cache and
\* never read by the actor: what the updates delivered, told from the outcome
\* of each fold.  receipted: the transactions of the block whose receipt an
\* update delivered while they were in the block, since the latest index-0
\* update.
Record(h, c2, payload, out) ==
    [maxPending |-> IF ReachedIndexing(out)
                    THEN MaxOf(h.maxPending, c2[KPending].v.header.number)
                    ELSE h.maxPending,
     tracked |-> IF ~PassedGate(out) THEN h.tracked
                 ELSE IF payload.index = 0 THEN 0
                 ELSE MaxOf(h.tracked, payload.index),
     lapsed |-> h.lapsed /\ ~(PassedGate(out) /\ payload.index = 0),
     prevBalance |-> IF out # "applied" THEN h.prevBalance
                     ELSE [a \in Addresses |->
                             IF a \in DOMAIN payload.metadata.new_account_balances
                             THEN h.balance[a]
                             ELSE h.prevBalance[a]],
     balance |-> IF out # "applied" THEN h.balance
                 ELSE [a \in Addresses |->
                         IF a \in DOMAIN payload.metadata.new_account_balances
                         THEN payload.metadata.new_account_balances[a]
                         ELSE h.balance[a]],
     base |-> IF PassedStale(out) /\ out # "base_set_failed" /\ payload.base.some
              THEN [h.base EXCEPT ![payload.metadata.block_number] = payload.base]
              ELSE h.base,
     concat |-> IF ~ReachedAssembly(out) THEN h.concat
                ELSE [h.concat EXCEPT ![payload.metadata.block_number] =
                        IF payload.index = 0 THEN payload.diff.transactions
                        ELSE @ \o payload.diff.transactions],
     firstSeen |-> IF ~ReachedIndexing(out) THEN h.firstSeen
                   ELSE [h.firstSeen EXCEPT ![payload.metadata.block_number] =
                           FirstOccurrences(@ \o HashesOf(payload.diff.transactions))],
     receipted |-> IF ~ReachedIndexing(out) THEN h.receipted
                   ELSE [h.receipted EXCEPT ![payload.metadata.block_number] =
                           (IF payload.index = 0 THEN {} ELSE @)
                           \cup (DOMAIN payload.metadata.receipts
                                 \cap Range(HashesOf(c2[KDiffTxs(payload.metadata.block_number)].v)))]]

\* The history once entries have expired: an expired tracker no longer tells
\* the block's highest index, an expired hash list starts again.
Lapse(h, c2) ==
    [h EXCEPT !.lapsed = @ \/ ~Has(c2, KHighest),
              !.firstSeen = [n \in BlockNumbers |->
                               IF Has(c2, KTxHashes(n)) THEN h.firstSeen[n] ELSE <<>>]]

Idle == [method |-> "idle"]

Init ==
    /\ cache = <<>>
    /\ clock = 0
    /\ last = [payload |-> NoUpdate, out |-> "none", reported |-> 0,
               fail |-> {}, before |-> [out |-> "none", fail |-> {}]]
    /\ hist = [maxPending |-> 0, tracked |-> 0, lapsed |-> TRUE,
               balance |-> [a \in Addresses |-> 0],
               prevBalance |-> [a \in Addresses |-> 0],
               base |-> [n \in BlockNumbers |-> NoBase],
               concat |-> [n \in BlockNumbers |-> <<>>],
               firstSeen |-> [n \in BlockNumbers |-> <<>>],
               receipted |-> [n \in BlockNumbers |-> {}]]
    /\ rpc = Idle
    /\ conn = [pc |-> "connecting", backoff |-> InitialBackoff]
    /\ mailbox = <<>>
    /\ seen = [event |-> "start", delay |-> 0, failures |-> 0, dropped |-> FALSE,
               sent |-> <<>>, folded |-> <<>>]

\* The state after the fold of `payload` ended as r says; the record of the
\* fold keeps the key families whose writes failed in it, and `before`.
FoldedAs(payload, r, fail, before) ==
    /\ cache' = r.cache
    /\ last' = [payload |-> payload, out |-> r.out,
                reported |-> IF PassedGate(r.out)
                             THEN FlashblocksInBlock(cache, payload.index)
                             ELSE 0,
                fail |-> fail, before |-> before]
    /\ hist' = IF payload.metadata.ok THEN Record(hist, r.cache, payload, r.out)
               ELSE hist

\* The state after a fold in which no write failed.
Folded(payload, r) == FoldedAs(payload, r, {}, [out |-> "none", fail |-> {}])

\* The actor's loop takes the next update of the mailbox, one of U, and folds
\* it.  (An RPC call reads the cache at one instant: it is a step of its own
\* between two steps of the actor or of the clock.)
Fold(U) ==
    /\ rpc = Idle
    /\ clock < MaxSteps
    /\ \E payload \in U : Folded(payload, ProcessPayload(cache, payload, clock + 1, {}))
    /\ clock' = clock + 1
    /\ UNCHANGED <<rpc, conn, mailbox, seen>>

\* Time passes between two folds: every entry written by fold h or before expires.
Expire ==
    /\ rpc = Idle
    /\ \E h \in 1..clock :
         /\ {k \in DOMAIN cache : cache[k].at <= h} # {}
         /\ cache' = Unexpired(cache, h)
         /\ hist' = Lapse(hist, Unexpired(cache, h))
    /\ last' = [last EXCEPT !.out = "expired"]
    /\ UNCHANGED <<clock, rpc, conn, mailbox, seen>>

\* Updates that differ in index, block number and base: no transactions.
\* The base of an index-0 update may name another block than the metadata.
UpdatesOrder ==
    {MkPayload(0, b, MkDiff(<<>>, 1), MkMetadata(n, {}, {}, 1)) :
        n \in BlockNumbers,
        b \in {NoBase} \cup {SomeBase(MkBase(m, 1)) : m \in BlockNumbers}}
    \cup {MkPayload(i, NoBase, MkDiff(<<>>, 1), MkMetadata(n, {}, {}, 1)) :
            i \in Indices \ {0}, n \in BlockNumbers}
    \cup {MkPayload(1, NoBase, MkDiff(<<>>, 1), BadMetadata)}

NextOrder == Fold(UpdatesOrder) \/ Expire

SpecOrder == Init /\ [][NextOrder]_vars

\* ------------------------------------------- properties of the fold order

\* The values of the cache, key by key.
Values(c) == [k \in DOMAIN c |-> c[k].v]

\* The cache without the key k.
Without(c, k) == [x \in DOMAIN c \ {k} |-> c[x]]

\* A step that folds a decodable update whose block number is lower than the
\* number of the cached pending block.
FoldsOlderBlock ==
    /\ clock' = clock + 1
    /\ last'.payload.metadata.ok
    /\ Has(cache, KPending)
    /\ last'.payload.metadata.block_number < Get(cache, KPending).header.number

\* C1, as stated: with a pending block N cached, the fold of an update whose
\* block number is lower than N leaves every cache key, the highest-index
\* tracker included, with the value it had.
C1_StaleIsNoOp == [][FoldsOlderBlock => Values(cache') = Values(cache)]_vars

\* C1, amended: with a pending block N cached, the fold of an update whose
\* block number is lower than N leaves every cache entry other than the
\* highest-index tracker as it was (value and write time).
C1_StaleKeepsAllButTracker ==
    [][FoldsOlderBlock => Without(cache', KHighest) = Without(cache, KHighest)]_vars

\* C1: an update of an older block was rejected by the stale check, after it
\* rewrote the tracker.
C1_StaleRejected ==
    /\ last.out = "stale"
    /\ Has(cache, KPending)
    /\ last.payload.metadata.block_number < Get(cache, KPending).header.number
    /\ Has(cache, KHighest)
    /\ cache[KHighest].at = clock

\* C2, as stated: the number of the block cached under "pending" is never
\* lower than the number of a pending block written before.
C2_PendingNeverDecreases ==
    Has(cache, KPending) => Get(cache, KPending).header.number >= hist.maxPending

\* A step that folds a decodable update with a non-zero index for whose block
\* number no base is cached.
FoldsWithoutBase ==
    /\ clock' = clock + 1
    /\ last'.payload.metadata.ok
    /\ last'.payload.index # 0
    /\ ~Has(cache, KBase(last'.payload.metadata.block_number))

\* C3: the fold of an update with index # 0 and no cached base for its block
\* number writes nothing: no pending block, no other key.
C3_ZeroIndexGate == [][FoldsWithoutBase => cache' = cache]_vars

\* C3: an update was discarded by the gate while another block was pending.
C3_Discarded ==
    /\ last.out = "no_base"
    /\ last.payload.index # 0
    /\ Has(cache, KPending)
    /\ ~Has(cache, KBase(last.payload.metadata.block_number))

\* C5: after each update that passed the gate, the tracker holds the highest
\* index among the updates since (and with) the latest index-0 update, as
\* long as the tracker's entry has not expired since that update.
C5_HighestIndex ==
    (PassedGate(last.out) /\ ~hist.lapsed)
        => (Has(cache, KHighest) /\ Get(cache, KHighest) = hist.tracked)

\* C5: index 2 arrived after index 3 and the tracker stays at 3.
C5_LateIndex ==
    /\ PassedGate(last.out)
    /\ ~hist.lapsed
    /\ last.payload.index = 2
    /\ Get(cache, KHighest) = 3

\* ------------------------------------- properties of the per-block lists

\* Updates of block 1 that differ in index, transactions and receipts: the
\* metadata has no receipt or the receipts of both transactions.  One update
\* carries bytes that decode to no transaction.
TxLists == {<<"rawA">>, <<"rawB">>, <<"rawB", "rawA">>}

UpdatesTxs ==
    {MkPayload(i, IF i = 0 THEN SomeBase(MkBase(1, 1)) ELSE NoBase,
               MkDiff(txs, 1), MkMetadata(1, rs, {}, 1)) :
        i \in {0, 1}, txs \in TxLists,
        rs \in {{}, {"0xhA", "0xhB"}}}
    \cup {MkPayload(1, NoBase, MkDiff(<<"rawX">>, 1), MkMetadata(1, {}, {}, 1))}

NextTxs == Fold(UpdatesTxs) \/ Expire

SpecTxs == Init /\ [][NextTxs]_vars

NoRepeats(s) == \A i, j \in 1..Len(s) : s[i] = s[j] => i = j

\* C4: the list under tx_hashes:<N> holds each hash once, in the order in
\* which the hashes were first seen in the updates indexed for block N.
C4_HashListFirstSeen ==
    \A n \in BlockNumbers :
        Has(cache, KTxHashes(n))
            => /\ NoRepeats(Get(cache, KTxHashes(n)))
               /\ Get(cache, KTxHashes(n)) = hist.firstSeen[n]

\* C4: after [A], an update with [B, A] was applied and the list is [A, B].
C4_Reordered ==
    /\ last.out = "applied"
    /\ last.payload.index = 1
    /\ last.payload.diff.transactions = <<"rawB", "rawA">>
    /\ Get(cache, KTxHashes(1)) = <<"0xhA", "0xhB">>

\* C8: the list under diff:transactions:<N> is the concatenation, in delivery
\* order, of the transactions of the updates accepted for N since the latest
\* index-0 update for N.
C8_CumulativeTransactions ==
    \A n \in BlockNumbers :
        Has(cache, KDiffTxs(n)) => Get(cache, KDiffTxs(n)) = hist.concat[n]

\* C8: a later update appended two transactions to a list that held one.
C8_Appended ==
    /\ last.out = "applied"
    /\ last.payload.index = 1
    /\ Len(last.payload.diff.transactions) = 2
    /\ Get(cache, KDiffTxs(1)) = <<"rawA", "rawB", "rawA">>

\* The hashes of the receipts in the list rs.
ReceiptHashes(rs) == [i \in 1..Len(rs) |-> rs[i].tx]

\* C9, as stated: after an applied update of block N (no transaction of the
\* block delivered twice), pending_receipts:<N> holds the receipts of the
\* block's transactions in arrival order, one per transaction that was given
\* a receipt since the latest index-0 update.
C9_ReceiptsFollowTransactions ==
    \A n \in BlockNumbers :
        (/\ last.out = "applied"
         /\ last.payload.metadata.block_number = n
         /\ NoRepeats(Get(cache, KDiffTxs(n))))
            => ReceiptHashes(Get(cache, KPendingReceipts(n)))
                 = SelectSeq(HashesOf(Get(cache, KDiffTxs(n))),
                             LAMBDA h : h \in hist.receipted[n])

\* --------------------------------- properties of the block and balances

\* Updates of two blocks whose bases, diffs and transactions differ with the
\* tag g.
UpdatesAsm ==
    {MkPayload(i, IF i = 0 THEN SomeBase(MkBase(n, g)) ELSE NoBase,
               MkDiff(IF g = 1 THEN <<"rawA">> ELSE <<"rawB">>, g),
               MkMetadata(n, {}, {}, g)) :
        i \in {0, 1}, n \in BlockNumbers, g \in {1, 2}}

NextAsm == Fold(UpdatesAsm) \/ Expire

SpecAsm == Init /\ [][NextAsm]_vars

\* Updates of two blocks that have no balance for the address, or the
\* balance tagged 1 or 2.
UpdatesBal ==
    {MkPayload(i, IF i = 0 THEN SomeBase(MkBase(n, 1)) ELSE NoBase,
               MkDiff(<<>>, 1), MkMetadata(n, {}, as, g)) :
        i \in {0, 1}, n \in BlockNumbers, g \in {1, 2}, as \in SUBSET Addresses}

NextBal == Fold(UpdatesBal) \/ Expire

SpecBal == Init /\ [][NextBal]_vars

\* C6: after an applied update every balance of its metadata is the cached
\* one, and a cached balance is always the one of the latest applied update
\* that had a balance for the address.
C6_BalanceOverwrite ==
    /\ last.out = "applied"
         => \A a \in DOMAIN last.payload.metadata.new_account_balances :
               /\ Has(cache, KRaw(a))
               /\ Get(cache, KRaw(a)) = last.payload.metadata.new_account_balances[a]
    /\ \A a \in Addresses : Has(cache, KRaw(a)) => Get(cache, KRaw(a)) = hist.balance[a]

\* C6: an applied update replaced the balance 1001 of the address by 1002.
C6_Overwritten ==
    /\ last.out = "applied"
    /\ "0xa1" \in DOMAIN last.payload.metadata.new_account_balances
    /\ hist.prevBalance["0xa1"] = 1001
    /\ Has(cache, KRaw("0xa1"))
    /\ Get(cache, KRaw("0xa1")) = 1002

\* The block has the header fields of the base, the roots, bloom and gas used
\* of the diff, and the decoded transactions txs.
AssembledFrom(block, base, diff, txs) ==
    /\ block.header.parent_hash = base.parent_hash
    /\ block.header.beneficiary = base.fee_recipient
    /\ block.header.number = base.block_number
    /\ block.header.gas_limit = base.gas_limit
    /\ block.header.timestamp = base.timestamp
    /\ block.header.mix_hash = base.prev_randao
    /\ block.header.extra_data = base.extra_data
    /\ block.header.state_root = diff.state_root
    /\ block.header.receipts_root = diff.receipts_root
    /\ block.header.logs_bloom = diff.logs_bloom
    /\ block.header.gas_used = diff.gas_used
    /\ block.body.transactions = [i \in 1..Len(txs) |-> TxOf(txs[i])]

\* C7, amended: after an update of block N is folded into a block, the
\* pending block has the header fields of the base delivered for N, the state
\* root, receipts root, logs bloom and gas used of that update's diff, and the
\* cumulative transactions of N.
C7_PendingAssembled ==
    ReachedIndexing(last.out)
        => AssembledFrom(Get(cache, KPending),
                         hist.base[last.payload.metadata.block_number].v,
                         last.payload.diff,
                         hist.concat[last.payload.metadata.block_number])

\* C7, as stated: the pending block is assembled so and its block hash is the
\* block hash of that update's diff.
C7_PendingHasDiffBlockHash ==
    ReachedIndexing(last.out)
        => /\ AssembledFrom(Get(cache, KPending),
                            hist.base[last.payload.metadata.block_number].v,
                            last.payload.diff,
                            hist.concat[last.payload.metadata.block_number])
           /\ HashSlow(Get(cache, KPending).header) = last.payload.diff.block_hash

\* C7: update 1 with the diff tagged 2 was applied on the base tagged 1.
C7_SecondUpdateApplied ==
    /\ last.out = "applied"
    /\ last.payload.index = 1
    /\ Get(cache, KPending).header.parent_hash = 11
    /\ Get(cache, KPending).header.state_root = 112
    /\ Len(Get(cache, KPending).body.transactions) = 2

\* ----------------------------------------------------- properties of the RPC

\* BlockNumberOrTag values a client sends.
Tags == {"pending", "latest"}

\* What EthBlocks::rpc_block of BaseNode may answer: a block, none, an error.
NodeAnswers ==
    {[kind |-> "block", header |-> [hash |-> 7, inner |-> "canonical"]],
     NotFound,
     [kind |-> "error"]}

\* The call is over.
Return ==
    /\ rpc # Idle
    /\ rpc' = Idle
    /\ UNCHANGED <<cache, clock, last, hist, conn, mailbox, seen>>

\* A client calls eth_getBlockByNumber(number, full).
CallBlockByNumber ==
    /\ rpc = Idle
    /\ \E number \in Tags, full \in BOOLEAN, node \in NodeAnswers :
         rpc' = [method |-> "block_by_number", number |-> number, full |-> full,
                 node |-> node, out |-> BlockByNumber(cache, number, full, node)]
    /\ UNCHANGED <<cache, clock, last, hist, conn, mailbox, seen>>

\* Updates of block 1 with a plain transaction, a deposit or a transaction
\* whose signer is not recovered; the metadata has the deposit's receipt or
\* no receipt.
UpdatesRpc ==
    {MkPayload(i, IF i = 0 THEN SomeBase(MkBase(1, 1)) ELSE NoBase,
               MkDiff(<<raw>>, 1), MkMetadata(1, {"0xhD"}, {}, 1)) :
        i \in {0, 1}, raw \in {"rawA", "rawD", "rawU"}}
    \cup {MkPayload(i, IF i = 0 THEN SomeBase(MkBase(1, 1)) ELSE NoBase,
                    MkDiff(<<"rawD">>, 1), MkMetadata(1, {}, {}, 1)) :
            i \in {0, 1}}

NextRpc == Fold(UpdatesRpc) \/ Expire \/ CallBlockByNumber \/ Return

SpecRpc == Init /\ [][NextRpc]_vars

\* C10: eth_getBlockByNumber with the pending tag makes no call to BaseNode
\* and returns the transform of the cached pending block, or not found when
\* none is cached; with another tag it makes the one call rpc_block(number,
\* full) to BaseNode and returns BaseNode's answer.
C10_PendingNeverDelegates ==
    rpc.method = "block_by_number"
        => IF rpc.number = "pending"
           THEN /\ rpc.out.calls = <<>>
                /\ rpc.out.result = IF Has(cache, KPending)
                                    THEN TransformBlock(cache, Get(cache, KPending), rpc.full)
                                    ELSE NotFound
           ELSE /\ rpc.out.calls = <<[method |-> "rpc_block", number |-> rpc.number,
                                      full |-> rpc.full]>>
                /\ rpc.out.result = rpc.node

\* C10: the pending block was asked for, with full transactions, while one
\* with a transaction was cached, and was returned.
C10_PendingReturned ==
    /\ rpc.method = "block_by_number"
    /\ rpc.number = "pending"
    /\ rpc.full
    /\ Has(cache, KPending)
    /\ rpc.out.result.kind = "block"
    /\ Len(rpc.out.result.transactions.v) = 2

\* ------------------------------------- properties of getTransactionReceipt

\* What EthTransactions::transaction_receipt of BaseNode may answer for the
\* hash: a receipt of a canonical block, none, an error.
NodeReceipts(tx_hash) ==
    {[kind |-> "receipt", transaction_hash |-> tx_hash, transaction_index |-> 0,
      block_hash |-> 7, block_number |-> 1, from |-> "canonical",
      cumulative_gas_used |-> 21000, gas_used |-> 21000],
     NotFound,
     [kind |-> "error"]}

\* A client calls eth_getTransactionReceipt(tx_hash).
CallGetTransactionReceipt ==
    /\ rpc = Idle
    /\ \E tx_hash \in {"0xhA", "0xhD"} :
         \E node \in NodeReceipts(tx_hash) :
            rpc' = [method |-> "get_transaction_receipt", tx_hash |-> tx_hash,
                    node |-> node, out |-> GetTransactionReceipt(cache, tx_hash, node)]
    /\ UNCHANGED <<cache, clock, last, hist, conn, mailbox, seen>>

\* Updates of block 1: the L1 info deposit or a plain transaction first, a
\* plain transaction after, with the receipt of the update's transaction or
\* without receipt.
UpdatesReceipt ==
    {MkPayload(0, SomeBase(MkBase(1, 1)), MkDiff(<<raw>>, 1),
               MkMetadata(1, {TxOf(raw).hash}, {}, 1)) : raw \in {"rawD", "rawA"}}
    \cup {MkPayload(1, NoBase, MkDiff(<<"rawA">>, 1), MkMetadata(1, rs, {}, 2)) :
            rs \in {{}, {"0xhA"}}}

NextReceipt == Fold(UpdatesReceipt) \/ Expire \/ CallGetTransactionReceipt \/ Return

SpecReceipt == Init /\ [][NextReceipt]_vars

\* C11: eth_getTransactionReceipt always asks BaseNode, and returns BaseNode's
\* receipt (or error) whatever is cached; only when BaseNode has none does it
\* return the transform of the cached receipt, and not found when none is
\* cached.
C11_BaseNodeFirst ==
    rpc.method = "get_transaction_receipt"
        => /\ rpc.out.calls = <<[method |-> "transaction_receipt", tx_hash |-> rpc.tx_hash]>>
           /\ rpc.node # NotFound => rpc.out.result = rpc.node
           /\ (rpc.node = NotFound /\ ~Has(cache, KReceipt(rpc.tx_hash)))
                => rpc.out.result = NotFound
           /\ (rpc.node = NotFound /\ Has(cache, KReceipt(rpc.tx_hash)))
                => rpc.out.result =
                     TransformReceipt(cache, Get(cache, KReceipt(rpc.tx_hash)), rpc.tx_hash,
                                      Get(cache, KReceiptBlock(rpc.tx_hash)))

\* C11: BaseNode had a receipt for a hash whose pending receipt was cached,
\* and BaseNode's receipt was returned.
C11_CanonicalWins ==
    /\ rpc.method = "get_transaction_receipt"
    /\ rpc.node.kind = "receipt"
    /\ Has(cache, KReceipt(rpc.tx_hash))
    /\ rpc.out.result = rpc.node

\* ------------------------------------------------- properties of getBalance

\* The texts a map key of newAccountBalances may have for the address: its
\* lower-case hex and its checksum text.
TextsOf(address) == {address, AddressToString(address)}

\* What EthState::balance of BaseNode may answer.
NodeBalances == {[kind |-> "balance", value |-> 5], [kind |-> "error"]}

BlockIds == {"none", "latest", "pending"}

\* A client calls eth_getBalance(address, block).
CallGetBalance ==
    /\ rpc = Idle
    /\ \E block_number \in BlockIds, node \in NodeBalances :
          rpc' = [method |-> "get_balance", address |-> "0xa1",
                  number |-> block_number, node |-> node,
                  out |-> GetBalance(cache, "0xa1", block_number, node)]
    /\ UNCHANGED <<cache, clock, last, hist, conn, mailbox, seen>>

\* Index-0 updates of block 1 without transactions, whose metadata has no
\* balance or the balance of the address under one of its texts.
UpdatesBalRpc ==
    {MkPayload(0, SomeBase(MkBase(1, 1)), MkDiff(<<>>, g), MkMetadata(1, {}, as, g)) :
        as \in {{}} \cup {{k} : k \in TextsOf("0xa1")}, g \in {1, 2}}

NextBalRpc == Fold(UpdatesBalRpc) \/ Expire \/ CallGetBalance \/ Return

SpecBalRpc == Init /\ [][NextBalRpc]_vars

\* The balances cached for the address, under any of its texts.
CachedBalances(address) ==
    {Get(cache, KRaw(k)) : k \in {t \in TextsOf(address) : Has(cache, KRaw(t))}}

\* C12: eth_getBalance at pending returns the balance an applied update's
\* newAccountBalances had for the address while it is cached, without asking
\* BaseNode; for any other block it returns BaseNode's answer.
C12_PendingBalanceFromIndex ==
    rpc.method = "get_balance"
        => IF rpc.number = "pending"
           THEN CachedBalances(rpc.address) # {}
                   => /\ rpc.out.result.kind = "balance"
                      /\ rpc.out.result.value \in CachedBalances(rpc.address)
                      /\ rpc.out.calls = <<>>
           ELSE rpc.out.result = rpc.node

\* ---------------------------------------- properties of getTransactionCount

\* What BaseNode may answer: to EthState::transaction_count a count or an
\* error, to EthBlocks::rpc_block_header(latest) a header, none or an error.
NodeCounts ==
    [count : {[kind |-> "count", value |-> 3], [kind |-> "error"]},
     header : {[kind |-> "header", number |-> n] : n \in {0, 1, 2}}
                \cup {NotFound, [kind |-> "error"]}]

\* A client calls eth_getTransactionCount(address, block).
CallGetTransactionCount ==
    /\ rpc = Idle
    /\ \E block_number \in Tags, node \in NodeCounts :
          rpc' = [method |-> "get_transaction_count", address |-> "0xs1",
                  number |-> block_number, node |-> node,
                  out |-> GetTransactionCount(cache, "0xs1", block_number, node)]
    /\ UNCHANGED <<cache, clock, last, hist, conn, mailbox, seen>>

\* Updates of blocks 1 and 2: index 0 with no transaction or the one of the
\* address, index 1 with a transaction of another sender.
UpdatesCount ==
    {MkPayload(0, SomeBase(MkBase(n, 1)), MkDiff(txs, 1), MkMetadata(n, {}, {}, 1)) :
        n \in BlockNumbers, txs \in {<<>>, <<"rawA">>}}
    \cup {MkPayload(1, NoBase, MkDiff(<<"rawB">>, 2), MkMetadata(n, {}, {}, 2)) :
            n \in BlockNumbers}

NextCount == Fold(UpdatesCount) \/ Expire \/ CallGetTransactionCount \/ Return

SpecCount == Init /\ [][NextCount]_vars

\* The number of transactions the cache tracks for the address in the
\* cached pending block, 0 when none.
PendingTxCount(address) ==
    IF Has(cache, KPending)
    THEN TxCount(cache, address, Get(cache, KPending).header.number)
    ELSE 0

\* Both of BaseNode's answers are values.
NodeCounted ==
    rpc.node.count.kind = "count" /\ rpc.node.header.kind = "header"

\* C13 as stated: eth_getTransactionCount at pending returns BaseNode's latest
\* nonce plus the count tracked for the address in the cached pending block,
\* whatever BaseNode's latest block is.
C13_NoncePlusPendingCount ==
    (rpc.method = "get_transaction_count" /\ rpc.number = "pending" /\ NodeCounted)
        => rpc.out.result =
              [kind |-> "count",
               value |-> rpc.node.count.value + PendingTxCount(rpc.address)]

\* C13 amended: at pending the handler returns BaseNode's latest nonce plus
\* the count tracked for the address in the block after BaseNode's latest
\* one (0 when none), the pending block's count when that block is the
\* pending one; BaseNode's nonce alone when BaseNode has no latest header,
\* and BaseNode's error when either of its answers is one.
C13_NoncePlusNextBlockCount ==
    (rpc.method = "get_transaction_count" /\ rpc.number = "pending")
        => /\ rpc.node.count.kind = "error" => rpc.out.result = rpc.node.count
           /\ (rpc.node.count.kind = "count" /\ rpc.node.header.kind = "error")
                => rpc.out.result = rpc.node.header
           /\ (rpc.node.count.kind = "count" /\ rpc.node.header = NotFound)
                => rpc.out.result = rpc.node.count
           /\ NodeCounted
                => /\ rpc.out.result =
                        [kind |-> "count",
                         value |-> rpc.node.count.value
                                     + TxCount(cache, rpc.address, rpc.node.header.number + 1)]
                   /\ (Has(cache, KPending)
                       /\ Get(cache, KPending).header.number = rpc.node.header.number + 1)
                        => rpc.out.result.value
                             = rpc.node.count.value + PendingTxCount(rpc.address)

\* C13: the pending block follows BaseNode's latest one, the address has a
\* transaction tracked in it, and the handler returned the sum.
C13_PendingSendCounted ==
    /\ rpc.method = "get_transaction_count" /\ rpc.number = "pending"
    /\ NodeCounted
    /\ Has(cache, KPending)
    /\ Get(cache, KPending).header.number = rpc.node.header.number + 1
    /\ PendingTxCount(rpc.address) = 1
    /\ rpc.out.result.value = rpc.node.count.value + 1

\* ------------------------------------------------------- properties of call

\* What BaseNode may answer: to EthCall::call bytes or an error, to
\* EthCall::call_many an error or one response per request, of which the
\* first or the last may have reverted.
NodeCalls ==
    [call : {[kind |-> "bytes", value |-> 99], [kind |-> "error"]},
     many : {[kind |-> "error"]}
              \cup {[kind |-> "responses", reverted |-> rv] :
                       rv \in {{}, {"first"}, {"last"}}}]

\* The call a client asks for.
Requested == [replays |-> "requested"]

\* A client calls eth_call(transaction, block).
CallEthCall ==
    /\ rpc = Idle
    /\ \E block_number \in BlockIds, node \in NodeCalls :
          rpc' = [method |-> "call", transaction |-> Requested,
                  number |-> block_number, node |-> node,
                  out |-> EthCall(cache, Requested, block_number, node)]
    /\ UNCHANGED <<cache, clock, last, hist, conn, mailbox, seen>>

\* Index-0 updates of block 1 with no, one or two transactions.
UpdatesCall ==
    {MkPayload(0, SomeBase(MkBase(1, 1)), MkDiff(txs, 1), MkMetadata(1, {}, {}, 1)) :
        txs \in {<<>>, <<"rawA">>, <<"rawA", "rawB">>}}

NextCall == Fold(UpdatesCall) \/ Expire \/ CallEthCall \/ Return

SpecCall == Init /\ [][NextCall]_vars

\* C14: eth_call at pending simulates one bundle, the pending block's
\* transactions followed by the requested call, in the pending context, and
\* returns the result of the bundle's last call, the requested one.
C14_ResultOfAppendedCall ==
    (rpc.method = "call" /\ rpc.number = "pending")
        => /\ Len(rpc.out.calls) = 1
           /\ rpc.out.calls[1].method = "call_many"
           /\ rpc.out.calls[1].context.block_number = "pending"
           /\ rpc.out.calls[1].bundles
                = <<Append([i \in 1..Len(PendingTransactions(cache)) |->
                              FromTransaction(PendingTransactions(cache)[i])],
                           rpc.transaction)>>
           /\ rpc.node.many.kind = "responses"
                => rpc.out.result
                     = ValueOrDefault(
                          ResponsesOf(rpc.node.many, Len(PendingTransactions(cache)) + 1)
                             [Len(PendingTransactions(cache)) + 1])

\* ------------------------------------------ properties of the delegation

\* Index-0 and index-1 updates of block 1 with a transaction of the address
\* 0xs1 and the balance of 0xa1 under its checksum text.
UpdatesDelegate ==
    {MkPayload(0, SomeBase(MkBase(1, 1)), MkDiff(<<"rawA">>, g),
               MkMetadata(1, {}, {AddressToString("0xa1")}, g)) : g \in {1, 2}}
    \cup {MkPayload(1, NoBase, MkDiff(<<"rawB">>, 2), MkMetadata(1, {}, {}, 2))}

NextDelegate ==
    \/ Fold(UpdatesDelegate)
    \/ Expire
    \/ CallBlockByNumber
    \/ CallGetBalance
    \/ CallGetTransactionCount
    \/ CallEthCall
    \/ Return

SpecDelegate == Init /\ [][NextDelegate]_vars

\* The four methods that serve the pending block from the cache.
Delegating == {"block_by_number", "get_balance", "get_transaction_count", "call"}

\* BaseNode's answer to the request the handler passes on.
NodeOutcome ==
    CASE rpc.method = "get_transaction_count" -> rpc.node.count
      [] rpc.method = "call" -> rpc.node.call
      [] OTHER -> rpc.node

\* The request as passed on to BaseNode, with the client's arguments.
PassedOn ==
    CASE rpc.method = "block_by_number" ->
           [method |-> "rpc_block", number |-> rpc.number, full |-> rpc.full]
      [] rpc.method = "get_balance" ->
           [method |-> "balance", address |-> rpc.address, block |-> rpc.number]
      [] rpc.method = "get_transaction_count" ->
           [method |-> "transaction_count", address |-> rpc.address, block |-> rpc.number]
      [] rpc.method = "call" ->
           [method |-> "call", transaction |-> rpc.transaction, block |-> rpc.number]

\* C15: a request of getBlockByNumber, getBalance, getTransactionCount or call
\* for a block other than pending makes the one corresponding call to
\* BaseNode with the client's arguments and returns its outcome, value or
\* error, whatever the cache holds.
C15_NonPendingDelegates ==
    (rpc.method \in Delegating /\ UnwrapOrDefault(rpc.number) # "pending")
        => /\ rpc.out.calls = <<PassedOn>>
           /\ rpc.out.result = NodeOutcome

\* C15: the balance of an address was asked for at latest while a balance
\* was cached for it, and BaseNode's answer was returned.
C15_CachedButDelegated ==
    /\ rpc.method = "get_balance"
    /\ rpc.number = "latest"
    /\ Has(cache, KRaw(AddressToString(rpc.address)))
    /\ Has(cache, KPending)
    /\ rpc.out.result = rpc.node

\* ------------------------------------------- behaviours of the stream task

\* The update the feed sends in this profile: index 0 of block 1, with base.
StreamPayloads ==
    {MkPayload(0, SomeBase(MkBase(1, 1)), MkDiff(<<>>, 1), MkMetadata(1, {}, {}, 1))}

\* The bytes of a binary frame: not UTF-8, UTF-8 that is not the JSON of an
\* update, or the JSON of an update.
FrameBytesOf(P) ==
    {[utf8 |-> FALSE],
     [utf8 |-> TRUE, text |-> [json |-> FALSE]]}
    \cup {[utf8 |-> TRUE, text |-> [json |-> TRUE, payload |-> p]] : p \in P}

FrameBytes == FrameBytesOf(StreamPayloads)

\* The text of a text frame: the JSON of an update, or not.
FrameTextsOf(P) ==
    {[json |-> FALSE]} \cup {[json |-> TRUE, payload |-> p] : p \in P}

\* What read.next() may yield when the feed sends the updates of P: a
\* binary, text, ping or close frame, a receive error, the end of the stream.
ItemsOf(P) ==
    {[kind |-> "msg", msg |-> [type |-> "Binary", bytes |-> b]] : b \in FrameBytesOf(P)}
    \cup {[kind |-> "msg", msg |-> [type |-> "Text", text |-> t]] : t \in FrameTextsOf(P)}
    \cup {[kind |-> "msg", msg |-> [type |-> t]] : t \in {"Ping", "Close"}}
    \cup {[kind |-> "err"], [kind |-> "end"]}

Items == ItemsOf(StreamPayloads)

\* A binary frame whose bytes are not the encoding of an update.
IsMalformed(item) ==
    /\ item.kind = "msg"
    /\ item.msg.type = "Binary"
    /\ (~item.msg.bytes.utf8 \/ ~item.msg.bytes.text.json)

\* A binary frame that encodes an update.
IsWellFormed(item) ==
    item.kind = "msg" /\ item.msg.type = "Binary" /\ ~IsMalformed(item)

Malformed == {item \in Items : IsMalformed(item)}

WellFormed == {item \in Items : IsWellFormed(item)}

\* What happened to the item, for the record.
EventOf(item) ==
    CASE IsMalformed(item) -> "dropped"
      [] IsWellFormed(item) -> "forwarded"
      [] item.kind = "err" -> "recv_error"
      [] item.kind = "end" -> "ended"
      [] item.msg.type = "Close" -> "closed"
      [] OTHER -> "ignored"

\* connect_async(url) returns Ok: the read loop starts.
ConnectOk ==
    /\ conn.pc = "connecting"
    /\ conn' = [conn EXCEPT !.pc = "connected"]
    /\ seen' = [seen EXCEPT !.event = "connected", !.dropped = FALSE]
    /\ UNCHANGED <<cache, clock, last, hist, rpc, mailbox>>

\* connect_async(url) returns Err: the task sleeps for backoff.
ConnectErr ==
    /\ conn.pc = "connecting"
    /\ conn' = [conn EXCEPT !.pc = "sleeping"]
    /\ seen' = [seen EXCEPT !.event = "connect_failed", !.delay = conn.backoff,
                            !.failures = Min(seen.failures + 1, MaxFailures)]
    /\ UNCHANGED <<cache, clock, last, hist, rpc, mailbox>>

\* The sleep is over.
Wake ==
    /\ conn.pc = "sleeping"
    /\ conn' = Resume(conn)
    /\ UNCHANGED <<cache, clock, last, hist, rpc, mailbox, seen>>

\* read.next() yields the item; an update is sent to the mailbox, which
\* takes it when it is not full (and holds fewer than `limit` updates).
ReceiveWithin(item, limit) ==
    /\ conn.pc = "connected"
    /\ Len(OnItem(item).send) > 0 => (~Full(mailbox) /\ Len(mailbox) < limit)
    /\ mailbox' = mailbox \o OnItem(item).send
    /\ conn' = [conn EXCEPT !.pc = IF OnItem(item).then = "break" THEN "connecting"
                                ELSE "connected"]
    /\ seen' = [seen EXCEPT !.event = EventOf(item),
                            !.dropped = seen.dropped \/ IsMalformed(item),
                            !.sent = seen.sent \o OnItem(item).send]
    /\ UNCHANGED <<cache, clock, last, hist, rpc>>

Receive(item) == ReceiveWithin(item, MaxQueued)

ReceiveItem == \E item \in Items : Receive(item)

\* The actor's loop takes the next update of the mailbox and folds it.
Recv ==
    /\ rpc = Idle
    /\ clock < MaxSteps
    /\ mailbox # <<>>
    /\ Folded(TakeNext(mailbox).message,
              ProcessPayload(cache, TakeNext(mailbox).message, clock + 1, {}))
    /\ clock' = clock + 1
    /\ mailbox' = TakeNext(mailbox).rest
    /\ seen' = [seen EXCEPT !.folded = Append(seen.folded, TakeNext(mailbox).message)]
    /\ UNCHANGED <<rpc, conn>>

NextStream == ConnectOk \/ ConnectErr \/ Wake \/ ReceiveItem \/ Recv

SpecStream == Init /\ [][NextStream]_vars

\* C16: the sleep after the k-th failed connection attempt lasts 1 second
\* for the first and twice the one before for each further one, up to 10
\* seconds: 1, 2, 4, 8, 10, 10, ...
C16_BackoffDoublesCapped ==
    /\ conn.backoff <= MaxBackoff
    /\ conn.pc = "sleeping"
         => /\ seen.delay = conn.backoff
            /\ seen.delay = Min(InitialBackoff * 2 ^ (seen.failures - 1), MaxBackoff)

\* C16: the sixth failed attempt, or a later one, is followed by a sleep of
\* 10 seconds.
C16_SleepsAtCap ==
    conn.pc = "sleeping" /\ seen.failures = MaxFailures /\ seen.delay = MaxBackoff

\* C17: whenever a connection has just been established the backoff is back
\* at its first value, 1 second.
C17_ResetOnConnect ==
    conn.pc = "connected" => conn.backoff = InitialBackoff

\* C18: when an established connection has ended by the server's close or
\* by a receive error, the task is in the sleep of the backoff before it
\* connects again.
C18_SleepAfterDisconnect ==
    seen.event \in {"closed", "recv_error"} => conn.pc = "sleeping"

\* The tokio runtime runs the task: a sleep ends and a connection attempt
\* returns.
SpecStreamFair ==
    SpecStream /\ WF_vars(Wake) /\ WF_vars(ConnectOk \/ ConnectErr)

\* C19: after every failed connection attempt, receive error, close or end
\* of the stream the task comes to a new connection attempt, however many
\* attempts have failed before.
C19_AlwaysReconnects ==
    (seen.event \in {"connect_failed", "recv_error", "closed", "ended"})
        ~> (conn.pc = "connecting")

\* C19: the task is asleep after the latest of at least six failed attempts,
\* an update having come over an established connection in between.
C19_FailedManyTimes ==
    /\ conn.pc = "sleeping"
    /\ seen.failures = MaxFailures
    /\ clock > 0

\* C20: the receipt of a binary frame that is not UTF-8 or not the JSON of an
\* update leaves the mailbox as it is and the connection open, and the
\* receipt of a frame that encodes an update, on a connection that has
\* dropped a frame or not, appends the update to the mailbox.
C20_MalformedFrameDropped ==
    [][\A item \in Items :
          Receive(item)
             => /\ item \in Malformed
                    => (mailbox' = mailbox /\ conn'.pc = "connected")
                /\ item \in WellFormed
                    => /\ mailbox' = Append(mailbox, item.msg.bytes.text.payload)
                       /\ conn'.pc = "connected"]_vars

\* C20: an update was forwarded on a connection that had dropped a frame.
C20_ForwardedAfterDrop ==
    /\ conn.pc = "connected"
    /\ seen.dropped
    /\ seen.event = "forwarded"
    /\ Len(mailbox) > 0

\* An item that carries the JSON of an update, in a binary or a text frame.
EncodesUpdate(item) ==
    \/ IsWellFormed(item)
    \/ item.kind = "msg" /\ item.msg.type = "Text" /\ item.msg.text.json

\* The update the item carries.
UpdateOf(item) ==
    IF item.msg.type = "Text" THEN item.msg.text.payload
    ELSE item.msg.bytes.text.payload

\* C21: the receipt of a frame that carries the JSON of an update, as a text
\* frame or as a binary frame, appends the update to the actor's mailbox.
C21_TextOrBinaryForwarded ==
    [][\A item \in Items :
          (Receive(item) /\ EncodesUpdate(item))
             => mailbox' = Append(mailbox, UpdateOf(item))]_vars

\* --------------------------------------------- behaviours of the mailbox

\* The limit that leaves the channel's own capacity to stop the sender.
QueueSlack == Capacity + 1

ReceiveQueue == \E item \in Items : ReceiveWithin(item, QueueSlack)

\* The feed stays connected or is connected to again at once; the actor
\* takes its updates at any pace.
NextQueue == ConnectOk \/ ReceiveQueue \/ Recv

SpecQueue == Init /\ [][NextQueue]_vars

\* C22: the mailbox never holds more than 100 updates; it changes only by
\* an update appended at its end, which does not happen while it holds 100,
\* or by the actor taking its first update: nothing in it is dropped or
\* overwritten.
C22_BoundedQueue ==
    [][/\ Len(mailbox') <= Capacity
       /\ mailbox' # mailbox
            => \/ mailbox # <<>> /\ mailbox' = Tail(mailbox)
               \/ /\ Len(mailbox) < Capacity
                  /\ Len(mailbox') = Len(mailbox) + 1
                  /\ SubSeq(mailbox', 1, Len(mailbox)) = mailbox]_vars

\* C22: the mailbox holds 100 updates again after the actor has taken one.
C22_FullAgain ==
    /\ Len(mailbox) = Capacity
    /\ Len(seen.folded) > 0
    /\ seen.event = "forwarded"

\* ------------------------------------------ behaviours of the delivery order

\* The updates the feed sends in this profile: index 0 (with base) and
\* index 1 of block 1.
OrderedPayloads ==
    StreamPayloads
    \cup {MkPayload(1, NoBase, MkDiff(<<>>, 2), MkMetadata(1, {}, {}, 2))}

ReceiveOrdered == \E item \in ItemsOf(OrderedPayloads) : Receive(item)

NextOrdered == ConnectOk \/ ReceiveOrdered \/ Recv

SpecOrdered == Init /\ [][NextOrdered]_vars

\* C23: the updates the actor has folded, followed by those in the mailbox,
\* are the updates of the well-formed frames the stream task has received,
\* in the order of their receipt, each once; the folds are as many steps of
\* the actor, the latest of them the fold of the latest update taken.
C23_DeliveryOrder ==
    /\ seen.folded \o mailbox = seen.sent
    /\ Len(seen.folded) = clock
    /\ clock > 0 => last.payload = seen.folded[clock]

\* C23: a connection has just been established while an update received on
\* an earlier connection waits in the mailbox behind one that is folded,
\* the two being different updates.
C23_AcrossReconnect ==
    /\ seen.event = "connected"
    /\ Len(mailbox) > 0
    /\ Len(seen.folded) > 0
    /\ seen.folded[Len(seen.folded)] # mailbox[1]

\* ------------------------------------------- behaviours with failed writes

\* The key families of which cache.set may fail in a fold, one at a time.
FailSets ==
    {{}} \cup {{family} : family \in {"base:", "pending", "block:", "receipt:"}}

\* Updates of blocks 1 and 2: index 0 with base, a transaction, its receipt
\* and a balance; index 1 with another transaction; and, for block 1, an
\* update whose metadata does not decode and one whose transaction does not
\* decode.
UpdatesFaulty ==
    {MkPayload(0, SomeBase(MkBase(n, 1)), MkDiff(<<"rawA">>, 1),
               MkMetadata(n, {"0xhA"}, {"0xa1"}, 1)) : n \in BlockNumbers}
    \cup {MkPayload(1, NoBase, MkDiff(<<"rawB">>, 2), MkMetadata(1, {"0xhB"}, {}, 2)),
          MkPayload(1, NoBase, MkDiff(<<>>, 2), BadMetadata),
          MkPayload(1, NoBase, MkDiff(<<"rawX">>, 2), MkMetadata(1, {}, {}, 2))}

\* The actor's loop folds the next update, one of U, while the writes of one
\* of the families of Fs fail.
FoldFailing(U, Fs) ==
    /\ rpc = Idle
    /\ clock < MaxSteps
    /\ \E payload \in U, fail \in Fs :
          FoldedAs(payload, ProcessPayload(cache, payload, clock + 1, fail), fail,
                   [out |-> last.out, fail |-> last.fail])
    /\ clock' = clock + 1
    /\ UNCHANGED <<rpc, conn, mailbox, seen>>

NextFaulty == FoldFailing(UpdatesFaulty, FailSets)

SpecFaulty == Init /\ [][NextFaulty]_vars

\* The outcomes of a fold that was rejected or ended part-way.
Aborted ==
    {"bad_metadata", "no_base", "stale", "base_missing", "base_set_failed",
     "transactions_failed", "assembly_failed", "pending_set_failed",
     "block_set_failed", "receipts_failed"}

\* An update that needs nothing of an earlier one: index 0 with its base,
\* decodable metadata and transactions.
SelfContained(payload) ==
    /\ payload.index = 0
    /\ payload.base.some
    /\ payload.metadata.ok
    /\ \A i \in 1..Len(payload.diff.transactions) :
          Decodable(payload.diff.transactions[i])

C25_BadMetadataNoMutation ==
    [][(clock' = clock + 1 /\ ~last'.payload.metadata.ok)
          => (cache' = cache /\ last'.out = "bad_metadata")]_vars

\* C25: an update whose metadata does not decode was folded while a block
\* was pending and the tracker held another index than the update's.
C25_DroppedOverPending ==
    /\ last.out = "bad_metadata"
    /\ Has(cache, KPending)
    /\ Has(cache, KHighest)
    /\ Get(cache, KHighest) # last.payload.index
    /\ cache[KHighest].at < clock

\* C26: when the write of the Base, of "pending" or of block:<N> fails in
\* the fold of an update that is not stale, the update's transaction, receipt
\* and balance entries are written by that fold all the same.
C26_SiblingsStillWritten ==
    (/\ clock > 0
     /\ SelfContained(last.payload)
     /\ last.fail \in {{"base:"}, {"pending"}, {"block:"}}
     /\ last.out # "stale")
        => /\ \A i \in 1..Len(last.payload.diff.transactions) :
                LET hash == TxOf(last.payload.diff.transactions[i]).hash
                IN /\ Has(cache, KRaw(hash))
                   /\ hash \in DOMAIN last.payload.metadata.receipts
                        => Has(cache, KReceipt(hash))
           /\ \A address \in DOMAIN last.payload.metadata.new_account_balances :
                Has(cache, KRaw(address)) /\ cache[KRaw(address)].at = clock

\* C27: when a non-zero-index update that was applied is applied again as
\* the next update, the pending block, the cumulative transaction list and
\* the cumulative receipt list of its block number are as they were after the
\* first application.
C27_DuplicateTolerated ==
    [][(/\ clock' = clock + 1
        /\ last.out = "applied"
        /\ last'.out = "applied"
        /\ last'.payload = last.payload
        /\ last.payload.index # 0)
          => LET n == last.payload.metadata.block_number
             IN /\ Get(cache', KPending) = Get(cache, KPending)
                /\ Get(cache', KDiffTxs(n)) = Get(cache, KDiffTxs(n))
                /\ Get(cache', KPendingReceipts(n)) = Get(cache, KPendingReceipts(n))]_vars

\* A step that folds an update of an older block than the pending one, the
\* update passing the zero-index gate.
FoldsStalePastGate ==
    /\ FoldsOlderBlock
    /\ (last'.payload.index = 0
        \/ Has(cache, KBase(last'.payload.metadata.block_number)))

\* C28: the fold of a stale update that passes the zero-index gate is
\* rejected and leaves every entry but highest_payload_index as it was
\* (base, blocks, transactions, receipts, balances), while the tracker
\* becomes 0 for index 0 and the maximum of its value and the index otherwise.
C28_StaleOnlyMovesTracker ==
    [][FoldsStalePastGate
          => /\ last'.out = "stale"
             /\ Without(cache', KHighest) = Without(cache, KHighest)
             /\ Has(cache', KHighest)
             /\ Get(cache', KHighest) =
                  IF last'.payload.index = 0 THEN 0
                  ELSE MaxOf(last'.payload.index,
                             IF Has(cache, KHighest) THEN Get(cache, KHighest)
                             ELSE 0)]_vars

\* C28: with receipts and balances cached, a stale index-1 update was
\* rejected after it raised the tracker from 0 to 1.
C28_StaleRaisedTracker ==
    /\ last.out = "stale"
    /\ last.payload.index = 1
    /\ last.fail = {}
    /\ Get(cache, KHighest) = 1
    /\ cache[KHighest].at = clock
    /\ Get(cache, KPending).header.number > last.payload.metadata.block_number
    /\ Has(cache, KReceipt("0xhA"))
    /\ Has(cache, KRaw("0xa1"))

\* C29: after an update for block number N was applied in full,
\* "pending" and block:<N> hold the same block, and the number of that block
\* is N.
C29_PendingIsBlockN ==
    last.out = "applied"
        => LET n == last.payload.metadata.block_number
           IN /\ Has(cache, KPending)
              /\ Has(cache, KBlock(n))
              /\ Get(cache, KBlock(n)) = Get(cache, KPending)
              /\ Get(cache, KPending).header.number = n

\* ------------------------------------ behaviours of the flashblock count

\* The updates the feed sends in this profile: indices 0 (with base), 1 and 3
\* of block 1, index 0 (with base) of block 2; no transactions.
ReportPayloads ==
    OrderedPayloads
    \cup {MkPayload(3, NoBase, MkDiff(<<>>, 2), MkMetadata(1, {}, {}, 2)),
          MkPayload(0, SomeBase(MkBase(2, 1)), MkDiff(<<>>, 1), MkMetadata(2, {}, {}, 1))}

\* The feed sends these updates in binary frames.
ReceiveReports ==
    \E p \in ReportPayloads :
        Receive([kind |-> "msg",
                 msg |-> [type |-> "Binary",
                          bytes |-> [utf8 |-> TRUE,
                                     text |-> [json |-> TRUE, payload |-> p]]]])

NextReports == ConnectOk \/ ReceiveReports \/ Recv

SpecReports == Init /\ [][NextReports]_vars

\* The position of the latest index-0 update in s (0: none).
LatestZero(s) ==
    IF \E j \in 1..Len(s) : s[j].index = 0
    THEN CHOOSE j \in 1..Len(s) :
             s[j].index = 0 /\ \A k \in (j + 1)..Len(s) : s[k].index # 0
    ELSE 0

\* The updates of s from the latest index-0 update on.
SinceLatestZero(s) == SubSeq(s, LatestZero(s), Len(s))

\* The updates of s that are for the block of its first update.
ForBlockOfFirst(s) ==
    {i \in 1..Len(s) : s[i].metadata.block_number = s[1].metadata.block_number}

\* The updates of s are for one block and carry the indices 0..Len(s)-1,
\* each once.
EachIndexOnce(s) ==
    /\ ForBlockOfFirst(s) = 1..Len(s)
    /\ {s[i].index : i \in 1..Len(s)} = 0..(Len(s) - 1)

\* C30, as stated: when the fold of an index-0 update reports a number, it
\* is the number of updates the actor received for the block that just
\* ended: those for its block number from its index-0 update on.
C30_ReportsUpdateCount ==
    (clock > 0 /\ last.payload.index = 0 /\ last.reported # 0)
        => last.reported =
             Cardinality(ForBlockOfFirst(
                 SinceLatestZero(SubSeq(seen.folded, 1, Len(seen.folded) - 1))))

\* C30, amended: the fold of an index-0 update (metadata decoded) with a
\* tracker value h cached reports h + 1 and sets the tracker to 0; h is the
\* highest index of the updates past the gate since the latest index-0
\* update, and h + 1 is the number of updates received for that block when
\* these were the indices 0..h, each once, with the block's base cached.
C30_ReportsHighestPlusOne ==
    [][(/\ clock' = clock + 1
        /\ last'.payload.metadata.ok
        /\ last'.payload.index = 0
        /\ Has(cache, KHighest))
          => /\ last'.reported = Get(cache, KHighest) + 1
             /\ Get(cache, KHighest) = hist.tracked
             /\ Has(cache', KHighest)
             /\ Get(cache', KHighest) = 0
             /\ cache'[KHighest].at = clock'
             /\ (/\ EachIndexOnce(SinceLatestZero(seen.folded))
                 /\ Has(cache, KBase(SinceLatestZero(seen.folded)[1].metadata.block_number)))
                    => last'.reported = Len(SinceLatestZero(seen.folded))]_vars

\* C30: after the updates 0 and 1 of block 1, the index-0 update of block 2
\* reported two updates.
C30_TwoReported ==
    /\ Len(seen.folded) = 3
    /\ last.payload.index = 0
    /\ last.payload.metadata.block_number = 2
    /\ seen.folded[2].index = 1
    /\ last.reported = 2
    /\ Get(cache, KHighest) = 0

\* ------------------------------------ properties of the transaction index

\* The entries tx_idx, tx_block_number and tx_sender of the transaction at
\* position i (from 1) of the block tell that position (from 0), the
\* block's number and the recovered sender.
IndexedAt(c, block, i) ==
    LET tx == block.body.transactions[i]
    IN /\ Has(c, KTxIdx(tx.hash))
       /\ Get(c, KTxIdx(tx.hash)) = i - 1
       /\ SignerRecovered(tx)
            => /\ Has(c, KTxBlockNumber(tx.hash))
               /\ Get(c, KTxBlockNumber(tx.hash)) = block.header.number
               /\ Has(c, KTxSender(tx.hash))
               /\ Get(c, KTxSender(tx.hash)) = tx.signer

\* C31: after an update was applied, every transaction of the pending block
\* has under tx_idx its position in that block, under tx_block_number that
\* block's number and under tx_sender its recovered sender.
C31_IndexOfPendingBlock ==
    last.out = "applied"
        => \A i \in 1..Len(Get(cache, KPending).body.transactions) :
              IndexedAt(cache, Get(cache, KPending), i)

\* C32: every block cached under "pending" or under block:<N> has the base
\* fee 1000, whatever the base fee of the base it was assembled from.
C32_PlaceholderBaseFee ==
    /\ Has(cache, KPending)
         => Get(cache, KPending).header.base_fee_per_gas = PlaceholderBaseFee
    /\ \A n \in BlockNumbers :
         Has(cache, KBlock(n))
             => Get(cache, KBlock(n)).header.base_fee_per_gas = PlaceholderBaseFee

\* C32: an update was applied on a cached base whose base fee is 82, and
\* the pending block's base fee is 1000.
C32_BaseFeeOverwritten ==
    /\ last.out = "applied"
    /\ Has(cache, KBase(last.payload.metadata.block_number))
    /\ Get(cache, KBase(last.payload.metadata.block_number)).base_fee_per_gas = 82
    /\ Get(cache, KPending).header.base_fee_per_gas = 1000

\* The distinct transactions of the list of raw transactions whose recovered
\* sender is the address, by hash.
SentBy(raws, address) ==
    {TxOf(raws[i]).hash : i \in {j \in 1..Len(raws) : TxOf(raws[j]).signer = address}}

\* C33: after an update for block N was applied, tx_count:<sender>:<N> is,
\* for every sender, the number of distinct transactions of that sender in
\* the cumulative transaction list of N (none cached: 0).
C33_CountPerSender ==
    last.out = "applied"
        => LET n == last.payload.metadata.block_number
           IN \A r \in RawTxs :
                SignerRecovered(TxOf(r))
                    => TxCount(cache, TxOf(r).signer, n)
                         = Cardinality(SentBy(Get(cache, KDiffTxs(n)), TxOf(r).signer))

\* ------------------------- behaviours with a handler reading during a fold

\* The keys one iteration of get_and_set_txs_and_receipts may set for the
\* transaction, in the order of its cache.set calls.
KeysOfTx(tx, block_number) ==
    <<KRaw(tx.hash), KTxIdx(tx.hash), KTxCount(tx.signer, block_number),
      KTxSender(tx.hash), KTxBlockNumber(tx.hash),
      KReceipt(tx.hash), KReceiptBlock(tx.hash)>>

RECURSIVE KeysOfTxs(_, _, _)
KeysOfTxs(txs, i, block_number) ==
    IF i > Len(txs) THEN <<>>
    ELSE KeysOfTx(txs[i], block_number) \o KeysOfTxs(txs, i + 1, block_number)

\* The balance keys, in an order the map's iteration may have.
RECURSIVE KeysOfBalances(_)
KeysOfBalances(todo) ==
    IF todo = {} THEN <<>>
    ELSE LET address == CHOOSE a \in todo : TRUE
         IN <<KRaw(address)>> \o KeysOfBalances(todo \ {address})

\* The keys process_payload may set for an update of the block number whose
\* block has the transactions txs, in the order of its cache.set calls.
KeysInOrder(block_number, txs, addresses) ==
    <<KHighest, KBase(block_number), KDiffTxs(block_number), KPending,
      KBlock(block_number)>>
    \o KeysOfTxs(txs, 1, block_number)
    \o <<KTxHashes(block_number), KPendingReceipts(block_number)>>
    \o KeysOfBalances(addresses)

\* The keys the fold at time t that left the cache c2 has set, in the order
\* in which it set them.
WrittenInOrder(c2, payload, t) ==
    IF ~payload.metadata.ok THEN <<>>
    ELSE LET Written(key) == key \in DOMAIN c2 /\ c2[key].at = t
         IN SelectSeq(
                FirstOccurrences(
                    KeysInOrder(payload.metadata.block_number,
                                IF Written(KPending)
                                THEN c2[KPending].v.body.transactions
                                ELSE <<>>,
                                DOMAIN payload.metadata.new_account_balances)),
                Written)

\* The cache between two cache.set calls of a fold from c to c2: the first k
\* keys of `written` are set, the others are as they were.
PartWay(c, c2, written, k) ==
    LET done == {written[i] : i \in 1..k}
    IN [key \in DOMAIN c \cup done |-> IF key \in done THEN c2[key] ELSE c[key]]

\* The entries the cache fallback of get_transaction_receipt unwraps and
\* does not find for the hash, by name; none when no receipt is cached.
MissingFor(c, tx_hash) ==
    IF ~Has(c, KReceipt(tx_hash)) THEN {}
    ELSE (IF Has(c, KReceiptBlock(tx_hash)) THEN {} ELSE {"receipt_block:"})
         \cup (IF Has(c, KRaw(tx_hash)) THEN {} ELSE {"transaction"})
         \cup (IF Has(c, KTxIdx(tx_hash)) THEN {} ELSE {"tx_idx:"})
         \cup (IF Has(c, KReceiptBlock(tx_hash))
                  /\ ~Has(c, KBlock(Get(c, KReceiptBlock(tx_hash))))
               THEN {"block:"} ELSE {})
         \cup (IF Has(c, KReceiptBlock(tx_hash))
                  /\ ~Has(c, KPendingReceipts(Get(c, KReceiptBlock(tx_hash))))
               THEN {"pending_receipts:"} ELSE {})

\* The call eth_getTransactionReceipt(tx_hash) that reads the cache c, for a
\* hash BaseNode has no receipt of.
Observed(c, tx_hash, k) ==
    [method |-> "get_transaction_receipt", tx_hash |-> tx_hash, node |-> NotFound,
     out |-> GetTransactionReceipt(c, tx_hash, NotFound),
     writes |-> k, missing |-> MissingFor(c, tx_hash)]

\* The actor folds the next update, one of U, while a handler on another
\* task serves eth_getTransactionReceipt: it reads the cache after k of the
\* fold's cache.set calls.
FoldObserved(U) ==
    /\ rpc = Idle
    /\ clock < MaxSteps
    /\ \E payload \in U, tx_hash \in {"0xhA", "0xhD"} :
          \E k \in 0..Len(WrittenInOrder(ProcessPayload(cache, payload, clock + 1, {}).cache,
                                         payload, clock + 1)) :
             /\ Folded(payload, ProcessPayload(cache, payload, clock + 1, {}))
             /\ rpc' = Observed(
                           PartWay(cache,
                                   ProcessPayload(cache, payload, clock + 1, {}).cache,
                                   WrittenInOrder(
                                       ProcessPayload(cache, payload, clock + 1, {}).cache,
                                       payload, clock + 1),
                                   k),
                           tx_hash, k)
    /\ clock' = clock + 1
    /\ UNCHANGED <<conn, mailbox, seen>>

NextObserved == FoldObserved(UpdatesReceipt) \/ Expire \/ Return

SpecObserved == Init /\ [][NextObserved]_vars

\* C34: whenever a handler reads the cache, between two writes of a fold or
\* after entries have expired, a cached receipt:<hash> comes with
\* receipt_block:<hash>, the raw transaction, tx_idx:<hash>, block:<n> and
\* pending_receipts:<n>: the fallback of eth_getTransactionReceipt finds
\* every entry it unwraps.
C34_ReceiptComesWithItsEntries ==
    /\ \A tx_hash \in {"0xhA", "0xhD"} : MissingFor(cache, tx_hash) = {}
    /\ rpc.method = "get_transaction_receipt" => rpc.missing = {}

\* C35: after an update for block N was applied in full, tx_hashes:<N> is
\* the sequence of the hashes of the transactions of the block cached under
\* block:<N>, each where it first occurs.
C35_HashListOfSnapshot ==
    last.out = "applied"
        => LET n == last.payload.metadata.block_number
               txs == Get(cache, KBlock(n)).body.transactions
           IN /\ Has(cache, KTxHashes(n))
              /\ Get(cache, KTxHashes(n))
                   = FirstOccurrences([i \in 1..Len(txs) |-> txs[i].hash])

\* ------------------------------------------ behaviours of a waiting send

\* A send that gives the update up: the channel is left as it is.
EnqueueDropping(q, payload) == q

\* sender.send(..).await completes: the update is the channel's newest.
Enqueue(q, payload) == Append(q, payload)

\* The updates the stream task reads in this profile: two more than the
\* channel holds.
MaxRead == Capacity + 2

\* What the feed sends in this profile: binary frames of the one update,
\* binary frames that are not an update, close frames.
DeliverItems ==
    {item \in Items : item.kind = "msg" /\ item.msg.type \in {"Binary", "Close"}}

\* read.next() yields the item.  For an update the task calls sender.send
\* and waits in it; this step is the call.
Read(item) ==
    /\ conn.pc = "connected"
    /\ Len(OnItem(item).send) > 0 => Len(seen.sent) < MaxRead
    /\ conn' = IF Len(OnItem(item).send) > 0
               THEN [pc |-> "sending", backoff |-> conn.backoff,
                     held |-> OnItem(item).send[1]]
               ELSE [conn EXCEPT !.pc = IF OnItem(item).then = "break" THEN "connecting"
                                        ELSE "connected"]
    /\ seen' = [seen EXCEPT !.event = EventOf(item),
                            !.dropped = seen.dropped \/ IsMalformed(item),
                            !.sent = seen.sent \o OnItem(item).send]
    /\ UNCHANGED <<cache, clock, last, hist, rpc, mailbox>>

ReadItem == \E item \in DeliverItems : Read(item)

\* The send completes: the channel has room and takes the update, and the
\* task goes on to read the next item.
Send ==
    /\ conn.pc = "sending"
    /\ ~Full(mailbox)
    /\ mailbox' = Enqueue(mailbox, conn.held)
    /\ conn' = [pc |-> "connected", backoff |-> conn.backoff]
    /\ UNCHANGED <<cache, clock, last, hist, rpc, seen>>

\* The actor's loop takes the next update of the mailbox and folds it, at
\* any time: the folds after the first MaxSteps are not told apart by time.
RecvAnyTime ==
    /\ rpc = Idle
    /\ mailbox # <<>>
    /\ Folded(TakeNext(mailbox).message,
              ProcessPayload(cache, TakeNext(mailbox).message,
                             Min(clock + 1, MaxSteps), {}))
    /\ clock' = Min(clock + 1, MaxSteps)
    /\ mailbox' = TakeNext(mailbox).rest
    /\ seen' = [seen EXCEPT !.folded = Append(seen.folded, TakeNext(mailbox).message)]
    /\ UNCHANGED <<rpc, conn>>

NextDeliver == ConnectOk \/ ReadItem \/ Send \/ RecvAnyTime

\* A step of the actor's loop, told by what it does to the channel: the
\* oldest message is taken.  Of the steps of NextDeliver only RecvAnyTime is
\* one, and it can be taken whenever a message waits.
ActorTakes == mailbox # <<>> /\ mailbox' = Tail(mailbox)

\* The runtime runs both tasks: the actor takes a waiting message, a send
\* that has room completes.
SpecDeliver ==
    Init /\ [][NextDeliver]_vars /\ WF_mailbox(ActorTakes) /\ WF_vars(Send)

\* C36: every update the stream task has read and given to sender.send is
\* eventually folded by the actor, also when the send waited on a full
\* channel: again and again the actor has folded as many updates as the task
\* has read (the updates read only grow in number, and they are folded in
\* the order read).
C36_EveryUpdateApplied ==
    []<>(/\ Len(seen.folded) = Len(seen.sent)
         /\ seen.folded = seen.sent
         /\ conn.pc # "sending")

\* C36: the stream task waits in sender.send on a full channel.
C36_SendWaitsOnFullChannel ==
    /\ conn.pc = "sending"
    /\ Full(mailbox)
    /\ Len(seen.sent) = Len(seen.folded) + Capacity + 1

====
